---- MODULE Spec2Model ----
(***************************************************************************)
(* hive-cli: declarative schema management for PostgreSQL.                 *)
(*                                                                         *)
(* The model covers the migration planner (generate_migrations and its     *)
(* diff, ordering and SQL-rendering helpers), the introspector             *)
(* (read_db_schema) and the migration runner (write_schema_to_db), run     *)
(* against a model of the database catalog that executes the rendered DDL. *)
(* SQL statements are strings, rendered with the format strings of the     *)
(* source; the catalog parses them again.                                  *)
(***************************************************************************)
EXTENDS Integers, Sequences, FiniteSets, TLC

VARIABLES
    db,          \* committed catalog of the database
    target,      \* the target schema handed to write_schema_to_db
    pc,          \* position of the runner inside write_schema_to_db
    current,     \* result of read_db_schema
    migrations,  \* the plan: Vec<String>
    next_stmt,   \* index of the next statement of the for loop
    tx,          \* "none" | "open" | "committed" | "rolled_back"
    txdb,        \* catalog as seen inside the open transaction
    wire,        \* what this call has sent to the database, in order
    result,      \* return value of the last finished call
    pre_db,      \* catalog when the current call started
    calls,       \* finished calls of write_schema_to_db, oldest first
    ordered_tables,  \* generate_migrations' local: the new tables in creation order
    toml_file,   \* content of the file write_schema_toml wrote
    rows,        \* the result sets handed to the three loops of read_db_schema
    peer         \* the locals of a second call of write_schema_to_db, suspended at an await

vars == <<db, target, pc, current, migrations, next_stmt, tx, txdb,
          wire, result, pre_db, calls, ordered_tables, toml_file, rows, peer>>

-----------------------------------------------------------------------------
(* Bounds *)

\* successive write_schema_to_db calls with the same target
MaxCalls == 2
\* how many of the users / posts table shapes below are drawn
NumUsersShapes == 5
NumPostsShapes == 6
\* foreign keys per table in the dependency-ordering inputs
MaxGraphFks == 1

-----------------------------------------------------------------------------
(* Strings: str::starts_with, str::ends_with, str::contains, join *)

Min(a, b) == IF a < b THEN a ELSE b

starts_with(s, p) == Len(s) >= Len(p) /\ SubSeq(s, 1, Len(p)) = p

ends_with(s, p) == Len(s) >= Len(p) /\ SubSeq(s, Len(s) - Len(p) + 1, Len(s)) = p

\* first position >= from at which p occurs in s, 0 when there is none
Find(s, p, from) ==
    LET hits == {i \in from..(Len(s) - Len(p) + 1) : SubSeq(s, i, i + Len(p) - 1) = p}
    IN  IF hits = {} THEN 0 ELSE CHOOSE i \in hits : \A j \in hits : i <= j

contains(s, p) == Find(s, p, 1) # 0

Drop(s, n) == SubSeq(s, n + 1, Len(s))

RECURSIVE join(_, _)
join(parts, sep) ==
    IF Len(parts) = 0 THEN ""
    ELSE IF Len(parts) = 1 THEN parts[1]
    ELSE parts[1] \o sep \o join(Tail(parts), sep)

RECURSIVE Split(_, _)
Split(s, sep) ==
    LET i == Find(s, sep, 1)
    IN  IF i = 0 THEN <<s>>
        ELSE <<SubSeq(s, 1, i - 1)>> \o Split(Drop(s, i + Len(sep) - 1), sep)

\* Iterator::map(..).collect() and flat_map over a Vec
RECURSIVE MapSeq(_, _)
MapSeq(F(_), s) == IF s = <<>> THEN <<>> ELSE <<F(Head(s))>> \o MapSeq(F, Tail(s))

RECURSIVE FlatMapSeq(_, _)
FlatMapSeq(F(_), s) == IF s = <<>> THEN <<>> ELSE F(Head(s)) \o FlatMapSeq(F, Tail(s))

Range(s) == {s[i] : i \in 1..Len(s)}

\* Option<String>
None == <<>>
Some(x) == <<x>>

-----------------------------------------------------------------------------
(* Schema model: DbSchema, DbTable, DbColumn, DbForeignKey, DbIndex *)

DbColumn(name, data_type, is_nullable, default) ==
    [name |-> name, data_type |-> data_type, is_nullable |-> is_nullable,
     default |-> default]

DbForeignKey(column, referenced_table, referenced_column) ==
    [column |-> column, referenced_table |-> referenced_table,
     referenced_column |-> referenced_column]

DbIndex(name, columns, is_unique, index_type) ==
    [name |-> name, columns |-> columns, is_unique |-> is_unique,
     index_type |-> index_type]

DbTable(columns, foreign_keys, indexes) ==
    [columns |-> columns, foreign_keys |-> foreign_keys, indexes |-> indexes]

\* tables: HashMap<String, DbTable>, a function from the table names present
DbSchema(tables) == [tables |-> tables]

contains_key(schema, name) == name \in DOMAIN schema.tables

\* HashMap / HashSet iteration: the keys in the order the hasher happens to give
Iterate(keys, order) == SelectSeq(order, LAMBDA k : k \in keys)

-----------------------------------------------------------------------------
(* Diff functions *)

find_new_tables(cur, tgt, order) ==
    SelectSeq(Iterate(DOMAIN tgt.tables, order), LAMBDA name : ~contains_key(cur, name))

find_new_columns(cur, tgt) ==
    LET current_cols == {c.name : c \in Range(cur.columns)}
    IN  SelectSeq(tgt.columns, LAMBDA c : c.name \notin current_cols)

\* a comparison under which two missing defaults differ, as NULLs do in SQL
columns_differ_null_unequal(a, b) ==
    \/ a.data_type # b.data_type
    \/ a.is_nullable # b.is_nullable
    \/ a.default # b.default
    \/ a.default = None

columns_differ(a, b) ==
    \/ a.data_type # b.data_type
    \/ a.is_nullable # b.is_nullable
    \/ a.default # b.default

\* HashMap::from_iter keeps the last column of a name
current_map_get(cur, name) ==
    LET idx == {i \in 1..Len(cur.columns) : cur.columns[i].name = name}
    IN  IF idx = {} THEN None
        ELSE Some(cur.columns[CHOOSE i \in idx : \A j \in idx : j <= i])

find_changed_columns(cur, tgt) ==
    FlatMapSeq(LAMBDA target_col :
                   LET got == current_map_get(cur, target_col.name)
                   IN  IF got # None /\ columns_differ(got[1], target_col)
                       THEN << <<got[1], target_col>> >>
                       ELSE <<>>,
               tgt.columns)

\* cur is None or Some(table)
find_new_indexes(cur, tgt) ==
    LET current_idx_names ==
            IF cur = None THEN {} ELSE {i.name : i \in Range(cur[1].indexes)}
    IN  SelectSeq(tgt.indexes, LAMBDA i : i.name \notin current_idx_names)

find_dropped_indexes(cur, tgt) ==
    LET target_idx_names == {i.name : i \in Range(tgt.indexes)}
    IN  SelectSeq(cur.indexes, LAMBDA i : i.name \notin target_idx_names)

find_new_foreign_keys(cur, tgt) ==
    LET current_fks ==
            IF cur = None THEN {}
            ELSE {<<f.column, f.referenced_table>> : f \in Range(cur[1].foreign_keys)}
    IN  SelectSeq(tgt.foreign_keys,
                  LAMBDA f : <<f.column, f.referenced_table>> \notin current_fks)

\* a diff that takes the referenced column into the identity of a foreign key
find_dropped_foreign_keys_by_triple(cur, tgt) ==
    SelectSeq(cur.foreign_keys, LAMBDA f : f \notin Range(tgt.foreign_keys))

find_dropped_foreign_keys(cur, tgt) ==
    LET target_fks == {<<f.column, f.referenced_table>> : f \in Range(tgt.foreign_keys)}
    IN  SelectSeq(cur.foreign_keys,
                  LAMBDA f : <<f.column, f.referenced_table>> \notin target_fks)

-----------------------------------------------------------------------------
(* Table ordering *)

\* a check that forgets the tables that exist already
deps_satisfied_among_new_only(table_name, table, ordered, remaining) ==
    \A fk \in Range(table.foreign_keys) :
        \/ fk.referenced_table \in Range(ordered)
        \/ fk.referenced_table = table_name

\* a check without the clause for a table that references itself
deps_satisfied_without_self(table_name, table, ordered, remaining) ==
    \A fk \in Range(table.foreign_keys) :
        \/ fk.referenced_table \in Range(ordered)
        \/ fk.referenced_table \notin remaining

deps_satisfied(table_name, table, ordered, remaining) ==
    \A fk \in Range(table.foreign_keys) :
        \/ fk.referenced_table \in Range(ordered)
        \/ fk.referenced_table \notin remaining
        \/ fk.referenced_table = table_name

\* one pass of the for loop over `remaining`
added_this_round(ordered, remaining, schema, order) ==
    SelectSeq(Iterate(remaining, order),
              LAMBDA table_name :
                  /\ contains_key(schema, table_name)
                  /\ deps_satisfied(table_name, schema.tables[table_name],
                                    ordered, remaining))

\* the while loop, from the state (ordered, remaining)
RECURSIVE order_loop(_, _, _, _)
order_loop(ordered, remaining, schema, order) ==
    IF remaining = {} THEN ordered
    ELSE LET added == added_this_round(ordered, remaining, schema, order)
         IN  IF added = <<>>
             THEN ordered \o Iterate(remaining, order)
             ELSE order_loop(ordered \o added, remaining \ Range(added), schema, order)

order_tables_by_dependency(tables, schema, order) ==
    order_loop(<<>>, Range(tables), schema, order)

-----------------------------------------------------------------------------
(* SQL generation *)

\* every catalog type name rendered as it is
map_data_type_verbatim(pg_type) == pg_type

map_data_type(pg_type) ==
    CASE pg_type = "character varying" -> "VARCHAR(255)"
      [] pg_type = "timestamp without time zone" -> "TIMESTAMP"
      [] pg_type = "timestamp with time zone" -> "TIMESTAMPTZ"
      [] OTHER -> pg_type

format_column_def(col) ==
    LET def0 == "\"" \o col.name \o "\" " \o map_data_type(col.data_type)
        def1 == IF ~col.is_nullable THEN def0 \o " NOT NULL" ELSE def0
    IN  IF col.default # None /\ ~contains(col.default[1], "nextval")
        THEN def1 \o " DEFAULT " \o col.default[1]
        ELSE def1

\* Iterator::find: the first index whose name ends with "_pkey"
find_pk(table) ==
    LET idx == {i \in 1..Len(table.indexes) : ends_with(table.indexes[i].name, "_pkey")}
    IN  IF idx = {} THEN None
        ELSE Some(table.indexes[CHOOSE i \in idx : \A j \in idx : i <= j])

generate_create_table(name, table) ==
    LET columns == MapSeq(format_column_def, table.columns)
        pk == find_pk(table)
        parts == IF pk # None
                 THEN Append(columns, "PRIMARY KEY (" \o join(pk[1].columns, ", ") \o ")")
                 ELSE columns
    IN  "CREATE TABLE \"" \o name \o "\" (\n  " \o join(parts, ",\n  ") \o "\n)"

\* an ADD COLUMN that leaves a sequence default out, as CREATE TABLE does
generate_add_column_skipping_nextval(table, col) ==
    "ALTER TABLE \"" \o table \o "\" ADD COLUMN " \o format_column_def(col)

generate_add_column(table, col) ==
    LET sql0 == "ALTER TABLE \"" \o table \o "\" ADD COLUMN \"" \o col.name \o "\" "
                    \o map_data_type(col.data_type)
        sql1 == IF ~col.is_nullable THEN sql0 \o " NOT NULL" ELSE sql0
    IN  IF col.default # None THEN sql1 \o " DEFAULT " \o col.default[1] ELSE sql1

\* an alteration that leaves the TYPE statement out when the type is unchanged
generate_alter_column_type_if_changed(table, old, new) ==
    LET head == "ALTER TABLE \"" \o table \o "\" ALTER COLUMN \"" \o new.name \o "\""
    IN  (IF old.data_type # new.data_type
         THEN << head \o " TYPE " \o map_data_type(new.data_type) \o " USING \"" \o new.name
                     \o "\"::" \o map_data_type(new.data_type) >>
         ELSE <<>>)
        \o << IF new.is_nullable THEN head \o " DROP NOT NULL" ELSE head \o " SET NOT NULL",
              IF new.default # None THEN head \o " SET DEFAULT " \o new.default[1]
              ELSE head \o " DROP DEFAULT" >>

generate_alter_column(table, old, new) ==
    LET head == "ALTER TABLE \"" \o table \o "\" ALTER COLUMN \"" \o new.name \o "\""
    IN  << head \o " TYPE " \o map_data_type(new.data_type) \o " USING \"" \o new.name
               \o "\"::" \o map_data_type(new.data_type),
           IF new.is_nullable THEN head \o " DROP NOT NULL" ELSE head \o " SET NOT NULL",
           IF new.default # None THEN head \o " SET DEFAULT " \o new.default[1]
           ELSE head \o " DROP DEFAULT" >>

generate_create_index(table, idx) ==
    LET unique == IF idx.is_unique THEN "UNIQUE " ELSE ""
        columns == MapSeq(LAMBDA c : "\"" \o c \o "\"", idx.columns)
    IN  "CREATE " \o unique \o "INDEX \"" \o idx.name \o "\" ON \"" \o table
            \o "\" USING " \o idx.index_type \o " (" \o join(columns, ", ") \o ")"

generate_drop_index(name) == "DROP INDEX IF EXISTS \"" \o name \o "\""

generate_add_fk(table, fk) ==
    LET constraint_name == table \o "_" \o fk.column \o "_fkey"
    IN  "ALTER TABLE \"" \o table \o "\" ADD CONSTRAINT \"" \o constraint_name
            \o "\" FOREIGN KEY (\"" \o fk.column \o "\") REFERENCES \""
            \o fk.referenced_table \o "\"(\"" \o fk.referenced_column \o "\")"

generate_drop_fk(table, fk) ==
    LET constraint_name == table \o "_" \o fk.column \o "_fkey"
    IN  "ALTER TABLE \"" \o table \o "\" DROP CONSTRAINT IF EXISTS \""
            \o constraint_name \o "\""

-----------------------------------------------------------------------------
(* The planner.  order is the iteration order of the three hash containers: *)
(* order.current of current.tables, order.target of target.tables and      *)
(* order.remaining of the HashSet inside order_tables_by_dependency.        *)

get(schema, name) == IF contains_key(schema, name) THEN Some(schema.tables[name]) ELSE None

\* Phase 1: drop foreign keys that no longer exist
phase1_drop_fks(cur, tgt, order) ==
    FlatMapSeq(LAMBDA table_name :
                   IF contains_key(tgt, table_name)
                   THEN MapSeq(LAMBDA fk : generate_drop_fk(table_name, fk),
                               find_dropped_foreign_keys(cur.tables[table_name],
                                                         tgt.tables[table_name]))
                   ELSE <<>>,
               Iterate(DOMAIN cur.tables, order.current))

\* Phase 2: create new tables, ordered by dependencies
phase2_create_tables(cur, tgt, order) ==
    LET new_tables == find_new_tables(cur, tgt, order.target)
        ordered == order_tables_by_dependency(new_tables, tgt, order.remaining)
    IN  FlatMapSeq(LAMBDA table_name :
                       IF contains_key(tgt, table_name)
                       THEN <<generate_create_table(table_name, tgt.tables[table_name])>>
                       ELSE <<>>,
                   ordered)

\* Phase 3 walking current.tables and target.tables side by side, as if both
\* maps iterated in the same order
phase3_alter_tables_zipped(cur, tgt, order) ==
    LET cur_names == Iterate(DOMAIN cur.tables, order.current)
        tgt_names == Iterate(DOMAIN tgt.tables, order.target)
    IN  FlatMapSeq(LAMBDA i :
                       IF i <= Len(cur_names) /\ contains_key(cur, tgt_names[i])
                       THEN MapSeq(LAMBDA col : generate_add_column(tgt_names[i], col),
                                   find_new_columns(cur.tables[cur_names[i]],
                                                    tgt.tables[tgt_names[i]]))
                            \o FlatMapSeq(LAMBDA ch : generate_alter_column(tgt_names[i],
                                                                            ch[1], ch[2]),
                                          find_changed_columns(cur.tables[cur_names[i]],
                                                               tgt.tables[tgt_names[i]]))
                       ELSE <<>>,
                   [i \in 1..Len(tgt_names) |-> i])

\* Phase 3: alter existing tables (add / modify columns)
phase3_alter_tables(cur, tgt, order) ==
    FlatMapSeq(LAMBDA table_name :
                   IF contains_key(cur, table_name)
                   THEN MapSeq(LAMBDA col : generate_add_column(table_name, col),
                               find_new_columns(cur.tables[table_name],
                                                tgt.tables[table_name]))
                        \o FlatMapSeq(LAMBDA ch : generate_alter_column(table_name, ch[1], ch[2]),
                                      find_changed_columns(cur.tables[table_name],
                                                           tgt.tables[table_name]))
                   ELSE <<>>,
               Iterate(DOMAIN tgt.tables, order.target))

\* Phase 4 without the primary-key skip
phase4_create_indexes_with_pkey(cur, tgt, order) ==
    FlatMapSeq(LAMBDA table_name :
                   MapSeq(LAMBDA idx : generate_create_index(table_name, idx),
                          find_new_indexes(get(cur, table_name), tgt.tables[table_name])),
               Iterate(DOMAIN tgt.tables, order.target))

\* Phase 4: create new indexes, skipping primary keys
phase4_create_indexes(cur, tgt, order) ==
    FlatMapSeq(LAMBDA table_name :
                   MapSeq(LAMBDA idx : generate_create_index(table_name, idx),
                          SelectSeq(find_new_indexes(get(cur, table_name),
                                                     tgt.tables[table_name]),
                                    LAMBDA idx : ~ends_with(idx.name, "_pkey"))),
               Iterate(DOMAIN tgt.tables, order.target))

\* Phase 5 adding foreign keys to the tables that exist already only
phase5_add_fks_existing_only(cur, tgt, order) ==
    FlatMapSeq(LAMBDA table_name :
                   IF contains_key(cur, table_name)
                   THEN MapSeq(LAMBDA fk : generate_add_fk(table_name, fk),
                               find_new_foreign_keys(get(cur, table_name),
                                                     tgt.tables[table_name]))
                   ELSE <<>>,
               Iterate(DOMAIN tgt.tables, order.target))

\* Phase 5: create new foreign keys
phase5_add_fks(cur, tgt, order) ==
    FlatMapSeq(LAMBDA table_name :
                   MapSeq(LAMBDA fk : generate_add_fk(table_name, fk),
                          find_new_foreign_keys(get(cur, table_name),
                                                tgt.tables[table_name])),
               Iterate(DOMAIN tgt.tables, order.target))

\* Phase 6 treating a table missing from the target as a table without indexes
phase6_drop_indexes_of_absent_tables(cur, tgt, order) ==
    FlatMapSeq(LAMBDA table_name :
                   MapSeq(LAMBDA idx : generate_drop_index(idx.name),
                          SelectSeq(IF contains_key(tgt, table_name)
                                    THEN find_dropped_indexes(cur.tables[table_name],
                                                              tgt.tables[table_name])
                                    ELSE cur.tables[table_name].indexes,
                                    LAMBDA idx : ~ends_with(idx.name, "_pkey"))),
               Iterate(DOMAIN cur.tables, order.current))

\* Phase 6: drop removed indexes, skipping primary keys
phase6_drop_indexes(cur, tgt, order) ==
    FlatMapSeq(LAMBDA table_name :
                   IF contains_key(tgt, table_name)
                   THEN MapSeq(LAMBDA idx : generate_drop_index(idx.name),
                               SelectSeq(find_dropped_indexes(cur.tables[table_name],
                                                              tgt.tables[table_name]),
                                         LAMBDA idx : ~ends_with(idx.name, "_pkey")))
                   ELSE <<>>,
               Iterate(DOMAIN cur.tables, order.current))

\* the phases with the index drops moved ahead of the index creations
generate_migrations_drops_before_creates(cur, tgt, order) ==
    phase1_drop_fks(cur, tgt, order)
        \o phase2_create_tables(cur, tgt, order)
        \o phase3_alter_tables(cur, tgt, order)
        \o phase6_drop_indexes(cur, tgt, order)
        \o phase4_create_indexes(cur, tgt, order)
        \o phase5_add_fks(cur, tgt, order)

\* the phases with the index creations moved ahead of the column additions
generate_migrations_indexes_before_alters(cur, tgt, order) ==
    phase1_drop_fks(cur, tgt, order)
        \o phase2_create_tables(cur, tgt, order)
        \o phase4_create_indexes(cur, tgt, order)
        \o phase3_alter_tables(cur, tgt, order)
        \o phase5_add_fks(cur, tgt, order)
        \o phase6_drop_indexes(cur, tgt, order)

generate_migrations(cur, tgt, order) ==
    phase1_drop_fks(cur, tgt, order)
        \o phase2_create_tables(cur, tgt, order)
        \o phase3_alter_tables(cur, tgt, order)
        \o phase4_create_indexes(cur, tgt, order)
        \o phase5_add_fks(cur, tgt, order)
        \o phase6_drop_indexes(cur, tgt, order)

-----------------------------------------------------------------------------
(* The database catalog.  A catalog maps each table of the public schema   *)
(* to its columns (in ordinal position), its foreign-key constraints and   *)
(* its indexes (columns in key order).  db and txdb hold catalogs.         *)

PgConstraint(name, column, referenced_table, referenced_column) ==
    [name |-> name, column |-> column, referenced_table |-> referenced_table,
     referenced_column |-> referenced_column]

PgTable(columns, constraints, indexes) ==
    [columns |-> columns, constraints |-> constraints, indexes |-> indexes]

\* byte order of the identifier characters: String::cmp and ORDER BY on names
Ascii == "0123456789ABCDEFGHIJKLMNOPQRSTUVWXYZ_abcdefghijklmnopqrstuvwxyz"

RECURSIVE str_lt(_, _)
str_lt(a, b) ==
    IF b = "" THEN FALSE
    ELSE IF a = "" THEN TRUE
    ELSE LET ca == Find(Ascii, SubSeq(a, 1, 1), 1)
             cb == Find(Ascii, SubSeq(b, 1, 1), 1)
         IN  IF ca # cb THEN ca < cb ELSE str_lt(Drop(a, 1), Drop(b, 1))

\* a finite set of names in ascending byte order
RECURSIVE SortNames(_)
SortNames(S) ==
    IF S = {} THEN <<>>
    ELSE LET m == CHOOSE x \in S : \A y \in S \ {x} : str_lt(x, y)
         IN  <<m>> \o SortNames(S \ {m})

\* the rows of a result set whose relative order the query leaves open
RECURSIVE AnyOrder(_)
AnyOrder(S) ==
    IF S = {} THEN <<>>
    ELSE LET m == CHOOSE x \in S : TRUE IN <<m>> \o AnyOrder(S \ {m})

\* SELECT ... FROM information_schema.columns WHERE table_schema = 'public'
\* ORDER BY table_name, ordinal_position
column_rows(cat) ==
    FlatMapSeq(LAMBDA t :
                   MapSeq(LAMBDA c : [table_name |-> t,
                                      column_name |-> c.name,
                                      data_type |-> c.data_type,
                                      is_nullable |-> IF c.is_nullable THEN "YES" ELSE "NO",
                                      column_default |-> c.default],
                          cat[t].columns),
               SortNames(DOMAIN cat))

\* every foreign-key constraint of the catalog with the table that owns it
fk_constraints(cat) ==
    UNION {{[table_name |-> t, con |-> c] : c \in Range(cat[t].constraints)} :
               t \in DOMAIN cat}

\* table_constraints tc JOIN key_column_usage kcu JOIN constraint_column_usage ccu,
\* both joined on the constraint name (and schema) alone,
\* WHERE tc.constraint_type = 'FOREIGN KEY' ORDER BY tc.table_name, kcu.column_name
fk_rows(cat) ==
    LET fks == fk_constraints(cat)
        joined == {j \in [tc : fks, kcu : fks, ccu : fks] :
                       /\ j.tc.con.name = j.kcu.con.name
                       /\ j.ccu.con.name = j.tc.con.name}
        of(t, c) == {j \in joined : j.tc.table_name = t /\ j.kcu.con.column = c}
    IN  FlatMapSeq(LAMBDA t :
                       FlatMapSeq(LAMBDA c :
                                      MapSeq(LAMBDA j :
                                                 [table_name |-> j.tc.table_name,
                                                  column_name |-> j.kcu.con.column,
                                                  referenced_table |-> j.ccu.con.referenced_table,
                                                  referenced_column |-> j.ccu.con.referenced_column],
                                             AnyOrder(of(t, c))),
                                  SortNames({j.kcu.con.column : j \in joined})),
                   SortNames({j.tc.table_name : j \in joined}))

\* pg_class t JOIN pg_index ix JOIN pg_class i JOIN pg_am am
\* JOIN pg_attribute a ON a.attrelid = t.oid AND a.attnum = ANY(ix.indkey)
\* ORDER BY t.relname, i.relname, a.attnum
index_rows(cat) ==
    LET index_named(t, n) == CHOOSE ix \in Range(cat[t].indexes) : ix.name = n
    IN  FlatMapSeq(LAMBDA t :
                       FlatMapSeq(LAMBDA n :
                                      MapSeq(LAMBDA a :
                                                 [table_name |-> t,
                                                  index_name |-> n,
                                                  column_name |-> a.name,
                                                  is_unique |-> index_named(t, n).is_unique,
                                                  index_type |-> index_named(t, n).index_type],
                                             SelectSeq(cat[t].columns,
                                                       LAMBDA a : a.name \in
                                                           Range(index_named(t, n).columns))),
                                  SortNames({ix.name : ix \in Range(cat[t].indexes)})),
                   SortNames(DOMAIN cat))

-----------------------------------------------------------------------------
(* The introspector.  index_order is the iteration order of index_map.     *)

\* the keys of index_map: the (table_name, index_name) groups of the index rows
index_map_keys(irows) == {<<r.table_name, r.index_name>> : r \in Range(irows)}

\* loops that make a table entry for every table name any row carries
read_db_schema_entry_for_every_row(crows, frows, irows, index_order) ==
    LET names == {r.table_name : r \in Range(crows) \cup Range(frows) \cup Range(irows)}
        columns(t) ==
            MapSeq(LAMBDA r : DbColumn(r.column_name, r.data_type,
                                       r.is_nullable = "YES", r.column_default),
                   SelectSeq(crows, LAMBDA r : r.table_name = t))
        foreign_keys(t) ==
            MapSeq(LAMBDA r : DbForeignKey(r.column_name, r.referenced_table,
                                           r.referenced_column),
                   SelectSeq(frows, LAMBDA r : r.table_name = t))
        index_of(k) ==
            LET group == SelectSeq(irows, LAMBDA r : r.table_name = k[1] /\ r.index_name = k[2])
            IN  DbIndex(k[2], MapSeq(LAMBDA r : r.column_name, group),
                        group[1].is_unique, group[1].index_type)
        indexes(t) ==
            MapSeq(index_of,
                   SelectSeq(Iterate(index_map_keys(irows), index_order),
                             LAMBDA k : k[1] = t))
    IN  DbSchema([t \in names |-> DbTable(columns(t), foreign_keys(t), indexes(t))])

\* the three loops of read_db_schema over the rows the three queries returned
read_db_schema(crows, frows, irows, index_order) ==
    LET names == {r.table_name : r \in Range(crows)}
        columns(t) ==
            MapSeq(LAMBDA r : DbColumn(r.column_name, r.data_type,
                                       r.is_nullable = "YES", r.column_default),
                   SelectSeq(crows, LAMBDA r : r.table_name = t))
        foreign_keys(t) ==
            MapSeq(LAMBDA r : DbForeignKey(r.column_name, r.referenced_table,
                                           r.referenced_column),
                   SelectSeq(frows, LAMBDA r : r.table_name = t))
        index_of(k) ==
            LET group == SelectSeq(irows, LAMBDA r : r.table_name = k[1] /\ r.index_name = k[2])
            IN  DbIndex(k[2], MapSeq(LAMBDA r : r.column_name, group),
                        group[1].is_unique, group[1].index_type)
        indexes(t) ==
            MapSeq(index_of,
                   SelectSeq(Iterate(index_map_keys(irows), index_order),
                             LAMBDA k : k[1] = t))
    IN  DbSchema([t \in names |-> DbTable(columns(t), foreign_keys(t), indexes(t))])

-----------------------------------------------------------------------------
(* The database executing one DDL statement.  The statement is parsed from *)
(* its text; the result is the new catalog, or an error that leaves the    *)
(* catalog as it was.                                                      *)

Ok(cat) == [ok |-> TRUE, cat |-> cat]

Error(cat) == [ok |-> FALSE, cat |-> cat]

\* a catalog index also records whether it backs the primary-key constraint
PgIndex(name, columns, is_unique, index_type, is_primary) ==
    [name |-> name, columns |-> columns, is_unique |-> is_unique,
     index_type |-> index_type, is_primary |-> is_primary]

\* s starts with a quoted identifier: the identifier and the text after it
unquote_head(s) ==
    LET close == Find(s, "\"", 2)
    IN  [name |-> SubSeq(s, 2, close - 1), rest |-> Drop(s, close)]

\* an unquoted identifier is folded to lower case
RECURSIVE fold_case(_)
fold_case(s) ==
    IF s = "" THEN ""
    ELSE LET up == Find("ABCDEFGHIJKLMNOPQRSTUVWXYZ", SubSeq(s, 1, 1), 1)
         IN  (IF up = 0 THEN SubSeq(s, 1, 1)
              ELSE SubSeq("abcdefghijklmnopqrstuvwxyz", up, up))
                 \o fold_case(Drop(s, 1))

\* the data_type information_schema.columns reports for a type written in DDL
catalog_data_type(ty) ==
    CASE ty = "VARCHAR(255)" -> "character varying"
      [] ty = "TIMESTAMP" -> "timestamp without time zone"
      [] ty = "TIMESTAMPTZ" -> "timestamp with time zone"
      [] OTHER -> ty

\* "<name>" <type>[ NOT NULL][ DEFAULT <expr>]
parse_column_def(def) ==
    LET q == unquote_head(def)
        rest == Drop(q.rest, 1)
        d == Find(rest, " DEFAULT ", 1)
        before == IF d = 0 THEN rest ELSE SubSeq(rest, 1, d - 1)
        not_null == ends_with(before, " NOT NULL")
        ty == IF not_null THEN SubSeq(before, 1, Len(before) - Len(" NOT NULL")) ELSE before
    IN  DbColumn(q.name, catalog_data_type(ty), ~not_null,
                 IF d = 0 THEN None ELSE Some(Drop(rest, d + Len(" DEFAULT ") - 1)))

relations(cat) ==
    DOMAIN cat \cup UNION {{ix.name : ix \in Range(cat[t].indexes)} : t \in DOMAIN cat}

column_names(table) == {c.name : c \in Range(table.columns)}

\* a unique index on exactly this column, as a foreign key needs on its target
has_unique_index(cat, t, c) ==
    \E ix \in Range(cat[t].indexes) : ix.is_unique /\ ix.columns = <<c>>

is_primary_key_column(table, c) ==
    \E ix \in Range(table.indexes) : ix.is_primary /\ c \in Range(ix.columns)

set_column(table, c, Update(_)) ==
    [table EXCEPT !.columns =
        MapSeq(LAMBDA col : IF col.name = c THEN Update(col) ELSE col, table.columns)]

\* CREATE TABLE "<name>" (\n  <part>,\n  <part>\n)
exec_create_table(cat, sql) ==
    LET q == unquote_head(Drop(sql, Len("CREATE TABLE ")))
        body == SubSeq(q.rest, Len(" (\n  ") + 1, Len(q.rest) - Len("\n)"))
        parts == SelectSeq(Split(body, ",\n  "), LAMBDA p : p # "")
        pks == SelectSeq(parts, LAMBDA p : starts_with(p, "PRIMARY KEY ("))
        pk_cols == IF pks = <<>> THEN <<>>
                   ELSE MapSeq(fold_case,
                               Split(SubSeq(pks[1], Len("PRIMARY KEY (") + 1, Len(pks[1]) - 1),
                                     ", "))
        cols0 == MapSeq(parse_column_def,
                        SelectSeq(parts, LAMBDA p : ~starts_with(p, "PRIMARY KEY (")))
        cols == MapSeq(LAMBDA c : IF c.name \in Range(pk_cols)
                                  THEN [c EXCEPT !.is_nullable = FALSE] ELSE c,
                       cols0)
        pkey == q.name \o "_pkey"
        indexes == IF pks = <<>> THEN <<>>
                   ELSE <<PgIndex(pkey, pk_cols, TRUE, "btree", TRUE)>>
        valid == /\ q.name \notin relations(cat)
                 /\ Cardinality({c.name : c \in Range(cols0)}) = Len(cols0)
                 /\ Len(pks) <= 1
                 /\ Range(pk_cols) \subseteq {c.name : c \in Range(cols0)}
                 /\ Cardinality(Range(pk_cols)) = Len(pk_cols)
                 /\ pks # <<>> => pkey \notin relations(cat)
    IN  IF valid
        THEN Ok([t \in DOMAIN cat \cup {q.name} |->
                    IF t = q.name THEN PgTable(cols, <<>>, indexes) ELSE cat[t]])
        ELSE Error(cat)

\* CREATE [UNIQUE ]INDEX "<name>" ON "<table>" USING <method> ("<c1>", "<c2>")
exec_create_index(cat, sql) ==
    LET unique == starts_with(sql, "CREATE UNIQUE INDEX ")
        qn == unquote_head(Drop(sql, IF unique THEN Len("CREATE UNIQUE INDEX ")
                                     ELSE Len("CREATE INDEX ")))
        qt == unquote_head(Drop(qn.rest, Len(" ON ")))
        open == Find(qt.rest, " (", 1)
        method == SubSeq(qt.rest, Len(" USING ") + 1, open - 1)
        cols == MapSeq(LAMBDA c : unquote_head(c).name,
                       Split(SubSeq(qt.rest, open + 2, Len(qt.rest) - 1), ", "))
        valid == /\ qt.name \in DOMAIN cat
                 /\ qn.name \notin relations(cat)
                 /\ Range(cols) \subseteq column_names(cat[qt.name])
    IN  IF valid
        THEN Ok([cat EXCEPT ![qt.name].indexes =
                    Append(@, PgIndex(qn.name, cols, unique, method, FALSE))])
        ELSE Error(cat)

\* DROP INDEX IF EXISTS "<name>"
exec_drop_index(cat, sql) ==
    LET qn == unquote_head(Drop(sql, Len("DROP INDEX IF EXISTS ")))
        owners == {t \in DOMAIN cat : \E ix \in Range(cat[t].indexes) : ix.name = qn.name}
        needed(t, ix) ==
            \/ ix.is_primary
            \/ /\ ix.is_unique
               /\ \E f \in fk_constraints(cat) :
                      /\ f.con.referenced_table = t
                      /\ <<f.con.referenced_column>> = ix.columns
        blocked == \E t \in owners : \E ix \in Range(cat[t].indexes) :
                       ix.name = qn.name /\ needed(t, ix)
    IN  IF blocked THEN Error(cat)
        ELSE Ok([t \in DOMAIN cat |->
                    [cat[t] EXCEPT !.indexes = SelectSeq(@, LAMBDA ix : ix.name # qn.name)]])

\* ALTER TABLE "<t>" ADD CONSTRAINT "<n>" FOREIGN KEY ("<c>") REFERENCES "<rt>"("<rc>")
exec_add_constraint(cat, t, rest) ==
    LET qn == unquote_head(Drop(rest, Len(" ADD CONSTRAINT ")))
        qc == unquote_head(Drop(qn.rest, Len(" FOREIGN KEY (")))
        qrt == unquote_head(Drop(qc.rest, Len(") REFERENCES ")))
        qrc == unquote_head(Drop(qrt.rest, Len("(")))
        valid == /\ qn.name \notin {c.name : c \in Range(cat[t].constraints)}
                 /\ qc.name \in column_names(cat[t])
                 /\ qrt.name \in DOMAIN cat
                 /\ qrc.name \in column_names(cat[qrt.name])
                 /\ has_unique_index(cat, qrt.name, qrc.name)
    IN  IF valid
        THEN Ok([cat EXCEPT ![t].constraints =
                    Append(@, PgConstraint(qn.name, qc.name, qrt.name, qrc.name))])
        ELSE Error(cat)

\* ALTER TABLE "<t>" DROP CONSTRAINT IF EXISTS "<n>"
exec_drop_constraint(cat, t, rest) ==
    LET qn == unquote_head(Drop(rest, Len(" DROP CONSTRAINT IF EXISTS ")))
    IN  Ok([cat EXCEPT ![t].constraints = SelectSeq(@, LAMBDA c : c.name # qn.name)])

\* ALTER TABLE "<t>" ADD COLUMN <column definition>
exec_add_column(cat, t, rest) ==
    LET col == parse_column_def(Drop(rest, Len(" ADD COLUMN ")))
    IN  IF col.name \in column_names(cat[t]) THEN Error(cat)
        ELSE Ok([cat EXCEPT ![t].columns = Append(@, col)])

\* ALTER TABLE "<t>" ALTER COLUMN "<c>" <action>
exec_alter_column(cat, t, rest) ==
    LET qc == unquote_head(Drop(rest, Len(" ALTER COLUMN ")))
        c == qc.name
        act == qc.rest
        using == Find(act, " USING ", 1)
    IN  IF c \notin column_names(cat[t]) THEN Error(cat)
        ELSE IF starts_with(act, " TYPE ") /\ using # 0
        THEN Ok([cat EXCEPT ![t] = set_column(@, c,
                    LAMBDA col : [col EXCEPT !.data_type =
                        catalog_data_type(SubSeq(act, Len(" TYPE ") + 1, using - 1))])])
        ELSE IF act = " DROP NOT NULL"
        THEN IF is_primary_key_column(cat[t], c) THEN Error(cat)
             ELSE Ok([cat EXCEPT ![t] = set_column(@, c,
                         LAMBDA col : [col EXCEPT !.is_nullable = TRUE])])
        ELSE IF act = " SET NOT NULL"
        THEN Ok([cat EXCEPT ![t] = set_column(@, c,
                    LAMBDA col : [col EXCEPT !.is_nullable = FALSE])])
        ELSE IF starts_with(act, " SET DEFAULT ")
        THEN Ok([cat EXCEPT ![t] = set_column(@, c,
                    LAMBDA col : [col EXCEPT !.default =
                        Some(Drop(act, Len(" SET DEFAULT ")))])])
        ELSE IF act = " DROP DEFAULT"
        THEN Ok([cat EXCEPT ![t] = set_column(@, c,
                    LAMBDA col : [col EXCEPT !.default = None])])
        ELSE Error(cat)

exec_alter_table(cat, sql) ==
    LET qt == unquote_head(Drop(sql, Len("ALTER TABLE ")))
        t == qt.name
        rest == qt.rest
    IN  IF t \notin DOMAIN cat THEN Error(cat)
        ELSE IF starts_with(rest, " ADD COLUMN ") THEN exec_add_column(cat, t, rest)
        ELSE IF starts_with(rest, " ALTER COLUMN ") THEN exec_alter_column(cat, t, rest)
        ELSE IF starts_with(rest, " ADD CONSTRAINT ") THEN exec_add_constraint(cat, t, rest)
        ELSE IF starts_with(rest, " DROP CONSTRAINT IF EXISTS ")
        THEN exec_drop_constraint(cat, t, rest)
        ELSE Error(cat)

execute(cat, sql) ==
    IF starts_with(sql, "CREATE TABLE \"") THEN exec_create_table(cat, sql)
    ELSE IF starts_with(sql, "CREATE UNIQUE INDEX \"") \/ starts_with(sql, "CREATE INDEX \"")
    THEN exec_create_index(cat, sql)
    ELSE IF starts_with(sql, "DROP INDEX IF EXISTS \"") THEN exec_drop_index(cat, sql)
    ELSE IF starts_with(sql, "ALTER TABLE \"") THEN exec_alter_table(cat, sql)
    ELSE Error(cat)

-----------------------------------------------------------------------------
(* The schemas drawn as inputs *)

RECURSIVE Perms(_)
Perms(S) ==
    IF S = {} THEN {<<>>}
    ELSE UNION {{<<x>> \o p : p \in Perms(S \ {x})} : x \in S}

id_col == DbColumn("id", "integer", FALSE, None)
id_serial(t) ==
    DbColumn("id", "integer", FALSE, Some("nextval('" \o t \o "_id_seq'::regclass)"))
email_col == DbColumn("email", "character varying", TRUE, None)
email_text == DbColumn("email", "text", FALSE, None)
created_col == DbColumn("created_at", "timestamp without time zone", FALSE, Some("now()"))
author_col == DbColumn("author_id", "integer", TRUE, None)
author_required == DbColumn("author_id", "integer", FALSE, Some("0"))
pkey(t) == DbIndex(t \o "_pkey", <<"id">>, TRUE, "btree")

UsersShapes ==
    << DbTable(<<id_col>>, <<>>, <<pkey("users")>>),
       DbTable(<<id_serial("users")>>, <<>>, <<pkey("users")>>),
       DbTable(<<id_col, email_col>>, <<>>,
               <<pkey("users"), DbIndex("users_email_idx", <<"email">>, FALSE, "btree")>>),
       DbTable(<<id_col, email_text>>, <<>>,
               <<pkey("users"), DbIndex("users_email_idx", <<"email">>, TRUE, "btree")>>),
       DbTable(<<id_col, email_col>>, <<DbForeignKey("id", "posts", "id")>>,
               <<pkey("users")>>),
       DbTable(<<id_col, email_col, created_col>>, <<>>,
               <<DbIndex("users_email_idx", <<"email", "id">>, FALSE, "btree"),
                 pkey("users")>>) >>

PostsShapes ==
    << DbTable(<<id_col, author_col>>, <<>>, <<pkey("posts")>>),
       DbTable(<<id_col, author_col>>, <<DbForeignKey("author_id", "users", "id")>>,
               <<pkey("posts")>>),
       DbTable(<<id_col, author_col>>, <<DbForeignKey("author_id", "users", "email")>>,
               <<pkey("posts")>>),
       DbTable(<<id_col, author_col>>, <<DbForeignKey("author_id", "posts", "id")>>,
               <<pkey("posts"), DbIndex("posts_author_key", <<"author_id">>, TRUE, "btree")>>),
       DbTable(<<id_col, author_required>>, <<DbForeignKey("author_id", "users", "id")>>,
               <<pkey("posts"), DbIndex("posts_author_idx", <<"author_id">>, FALSE, "hash")>>),
       DbTable(<<id_col, author_col>>, <<DbForeignKey("author_id", "accounts", "id")>>,
               <<>>) >>

\* shape 0 is "the table is absent"
SchemaOf(u, p) ==
    DbSchema([t \in (IF u = 0 THEN {} ELSE {"users"}) \cup (IF p = 0 THEN {} ELSE {"posts"}) |->
                 IF t = "users" THEN UsersShapes[u] ELSE PostsShapes[p]])

Schemas ==
    {SchemaOf(u, p) : u \in 0..Min(NumUsersShapes, Len(UsersShapes)),
                      p \in 0..Min(NumPostsShapes, Len(PostsShapes))}

\* the catalog of a database that holds exactly this schema
catalog_of(schema) ==
    [t \in DOMAIN schema.tables |->
        PgTable(schema.tables[t].columns,
                MapSeq(LAMBDA fk : PgConstraint(t \o "_" \o fk.column \o "_fkey", fk.column,
                                                fk.referenced_table, fk.referenced_column),
                       schema.tables[t].foreign_keys),
                MapSeq(LAMBDA ix : PgIndex(ix.name, ix.columns, ix.is_unique, ix.index_type,
                                           ix.name = t \o "_pkey"),
                       schema.tables[t].indexes))]

\* what PostgreSQL guarantees of every catalog
catalog_valid(cat) ==
    /\ \A t \in DOMAIN cat :
        /\ Cardinality(column_names(cat[t])) = Len(cat[t].columns)
        /\ Cardinality({c.name : c \in Range(cat[t].constraints)}) = Len(cat[t].constraints)
        /\ \A ix \in Range(cat[t].indexes) :
            /\ Range(ix.columns) \subseteq column_names(cat[t])
            /\ ix.is_primary =>
                   \A c \in Range(cat[t].columns) :
                       c.name \in Range(ix.columns) => ~c.is_nullable
        /\ \A c \in Range(cat[t].constraints) :
            /\ c.column \in column_names(cat[t])
            /\ c.referenced_table \in DOMAIN cat
            /\ c.referenced_column \in column_names(cat[c.referenced_table])
            /\ has_unique_index(cat, c.referenced_table, c.referenced_column)
    /\ \A t1, t2 \in DOMAIN cat :
           \A i1 \in 1..Len(cat[t1].indexes), i2 \in 1..Len(cat[t2].indexes) :
               cat[t1].indexes[i1].name = cat[t2].indexes[i2].name => t1 = t2 /\ i1 = i2
    /\ \A t \in DOMAIN cat : \A ix \in Range(cat[t].indexes) : ix.name \notin DOMAIN cat

Catalogs == {cat \in {catalog_of(s) : s \in Schemas} : catalog_valid(cat)}

-----------------------------------------------------------------------------
(* The migration runner: write_schema_to_db *)

EmptySchema == DbSchema([t \in {} |-> {}])

RetOk(value) == [ok |-> TRUE, value |-> value]
RetErr(message) == [ok |-> FALSE, message |-> message]

Sent(op, sql, ok) == [op |-> op, sql |-> sql, ok |-> ok]

\* the hash iteration orders one planning step can meet
Orders(cur, tgt) ==
    [current : Perms(DOMAIN cur.tables),
     target : Perms(DOMAIN tgt.tables),
     remaining : Perms(DOMAIN tgt.tables)]

\* a runner that never takes the early return
is_empty_never(plan) == FALSE

\* Vec::is_empty
is_empty(plan) == plan = <<>>

\* a loop that stops one statement early
loop_done_one_early(i, plan) == i + 1 >= Len(plan)

\* the end of `for sql in &migrations`, after i statements
loop_done(i, plan) == i >= Len(plan)

\* a failure that leaves the statements already executed in place
after_rollback_keeps_work(committed, working) == working

\* what the database holds once the transaction was dropped without commit:
\* the statements ran on `&mut *tx`, so the rollback discards them all
after_rollback(committed, working) == committed

\* there is no second call
NoCall == [pc |-> "absent"]

\* no query has returned yet
NoRows == [columns |-> <<>>, foreign_keys |-> <<>>, indexes |-> <<>>]

Init ==
    /\ db \in Catalogs
    /\ target \in Schemas
    /\ pc = "start"
    /\ current = EmptySchema
    /\ migrations = <<>>
    /\ next_stmt = 0
    /\ tx = "none"
    /\ txdb = db
    /\ wire = <<>>
    /\ result = None
    /\ pre_db = db
    /\ calls = <<>>
    /\ ordered_tables = <<>>
    /\ toml_file = ""
    /\ rows = NoRows
    /\ peer = NoCall

Return(ret, post) ==
    /\ result' = Some(ret)
    /\ calls' = Append(calls, [result |-> ret, pre |-> pre_db, post |-> post,
                               wire |-> wire'])
    /\ pc' = "returned"

\* Step 1: let current = read_db_schema(pool).await?
ReadDbSchema ==
    /\ pc = "start"
    /\ LET crows == column_rows(db)
           frows == fk_rows(db)
           irows == index_rows(db)
       IN  \E index_order \in Perms(index_map_keys(irows)) :
               current' = read_db_schema(crows, frows, irows, index_order)
    /\ pre_db' = db
    /\ pc' = "generate"
    /\ UNCHANGED <<peer, rows, toml_file, db, target, migrations, next_stmt, tx, txdb, wire, result, calls, ordered_tables>>

ReadDbSchemaFails ==
    /\ pc = "start"
    /\ pre_db' = db
    /\ wire' = wire
    /\ result' = Some(RetErr("read_db_schema"))
    /\ calls' = Append(calls, [result |-> RetErr("read_db_schema"), pre |-> db,
                               post |-> db, wire |-> wire])
    /\ pc' = "returned"
    /\ UNCHANGED <<peer, rows, toml_file, db, target, current, migrations, next_stmt, tx, txdb, ordered_tables>>

\* the fields row.get decodes: <<query, row, field>>.  column_default is an
\* Option, so only a value of another type fails there; the other fields also
\* fail on NULL.  The fields of a foreign-key row after table_name are decoded
\* only when the table is known.
decoded_fields(crows, frows, irows) ==
    {<<"columns", i, f>> : i \in 1..Len(crows),
                           f \in {"table_name", "column_name", "data_type", "is_nullable",
                                  "column_default"}}
    \cup {<<"foreign_keys", i, f>> : i \in 1..Len(frows), f \in {"table_name"}}
    \cup {<<"foreign_keys", i, f>> :
              i \in {k \in 1..Len(frows) :
                         frows[k].table_name \in {r.table_name : r \in Range(crows)}},
              f \in {"column_name", "referenced_table", "referenced_column"}}
    \cup {<<"indexes", i, f>> : i \in 1..Len(irows),
                                f \in {"table_name", "index_name", "column_name", "is_unique",
                                       "index_type"}}

\* a row comes back with a field that cannot be decoded: Row::get panics, the
\* call unwinds and returns nothing
ReadDbSchemaPanics ==
    /\ pc = "start"
    /\ decoded_fields(column_rows(db), fk_rows(db), index_rows(db)) # {}
    /\ pre_db' = db
    /\ pc' = "panicked"
    /\ UNCHANGED <<peer, rows, toml_file, db, target, current, migrations, next_stmt, tx, txdb, wire, result, calls,
                   ordered_tables>>

\* Step 2: generate the plan; an empty plan returns at once
GenerateMigrations ==
    /\ pc = "generate"
    /\ \E order \in Orders(current, target) :
        /\ ordered_tables' = order_tables_by_dependency(
                               find_new_tables(current, target, order.target),
                               target, order.remaining)
        /\ migrations' = generate_migrations(current, target, order)
    /\ wire' = wire
    /\ IF is_empty(migrations')
       THEN Return(RetOk(migrations'), db)
       ELSE pc' = "begin" /\ UNCHANGED <<result, calls>>
    /\ UNCHANGED <<peer, rows, toml_file, db, target, current, next_stmt, tx, txdb, pre_db>>

\* Step 3: let mut tx = pool.begin().await?
Begin ==
    /\ pc = "begin"
    /\ tx' = "open"
    /\ txdb' = db
    /\ wire' = Append(wire, Sent("begin", "", TRUE))
    /\ next_stmt' = 1
    /\ pc' = IF loop_done(0, migrations) THEN "commit" ELSE "execute"
    /\ UNCHANGED <<peer, rows, toml_file, db, target, current, migrations, result, pre_db, calls, ordered_tables>>

BeginFails ==
    /\ pc = "begin"
    /\ wire' = Append(wire, Sent("begin", "", FALSE))
    /\ Return(RetErr("begin"), db)
    /\ UNCHANGED <<peer, rows, toml_file, db, target, current, migrations, next_stmt, tx, txdb, pre_db, ordered_tables>>

\* `?` returns early and drops tx: the transaction is rolled back
Abort ==
    /\ tx' = "rolled_back"
    /\ db' = after_rollback(db, txdb)
    /\ txdb' = db'

\* one iteration of the for loop: the statement runs, or fails and `?` returns
Execute ==
    /\ pc = "execute"
    /\ LET sql == migrations[next_stmt]
           r == execute(txdb, sql)
       IN  IF r.ok
           THEN /\ txdb' = r.cat
                /\ wire' = Append(wire, Sent("execute", sql, TRUE))
                /\ next_stmt' = next_stmt + 1
                /\ pc' = IF loop_done(next_stmt, migrations) THEN "commit" ELSE "execute"
                /\ UNCHANGED <<db, tx, result, calls>>
           ELSE /\ wire' = Append(wire, Sent("execute", sql, FALSE))
                /\ Abort
                /\ Return(RetErr("Failed to execute: " \o sql), db')
                /\ UNCHANGED next_stmt
    /\ UNCHANGED <<peer, rows, toml_file, target, current, migrations, pre_db, ordered_tables>>

\* the driver reports an error for the statement (connection lost, timeout)
ExecuteFails ==
    /\ pc = "execute"
    /\ wire' = Append(wire, Sent("execute", migrations[next_stmt], FALSE))
    /\ Abort
    /\ Return(RetErr("Failed to execute: " \o migrations[next_stmt]), db')
    /\ UNCHANGED <<peer, rows, toml_file, target, current, migrations, next_stmt, pre_db, ordered_tables>>

\* the future is dropped while a statement executes: nothing is returned
ExecuteCancelled ==
    /\ pc = "execute"
    /\ wire' = Append(wire, Sent("execute", migrations[next_stmt], FALSE))
    /\ Abort
    /\ pc' = "cancelled"
    /\ UNCHANGED <<peer, rows, toml_file, target, current, migrations, next_stmt, result, pre_db, calls, ordered_tables>>

\* tx.commit().await?
Commit ==
    /\ pc = "commit"
    /\ db' = txdb
    /\ tx' = "committed"
    /\ wire' = Append(wire, Sent("commit", "", TRUE))
    /\ Return(RetOk(migrations), txdb)
    /\ UNCHANGED <<peer, rows, toml_file, target, current, migrations, next_stmt, txdb, pre_db, ordered_tables>>

CommitFails ==
    /\ pc = "commit"
    /\ wire' = Append(wire, Sent("commit", "", FALSE))
    /\ Abort
    /\ Return(RetErr("commit"), db')
    /\ UNCHANGED <<peer, rows, toml_file, target, current, migrations, next_stmt, pre_db, ordered_tables>>

\* the caller runs migrate again with the same target after a success
CallAgain ==
    /\ pc = "returned"
    /\ result # None /\ result[1].ok
    /\ Len(calls) < MaxCalls
    /\ pc' = "start"
    /\ current' = EmptySchema
    /\ migrations' = <<>>
    /\ next_stmt' = 0
    /\ tx' = "none"
    /\ txdb' = db
    /\ wire' = <<>>
    /\ result' = None
    /\ ordered_tables' = <<>>
    /\ UNCHANGED <<peer, rows, toml_file, db, target, pre_db, calls>>

Next ==
    \/ ReadDbSchema
    \/ ReadDbSchemaFails
    \/ ReadDbSchemaPanics
    \/ GenerateMigrations
    \/ Begin
    \/ BeginFails
    \/ Execute
    \/ ExecuteFails
    \/ ExecuteCancelled
    \/ Commit
    \/ CommitFails
    \/ CallAgain

Spec == Init /\ [][Next]_vars

-----------------------------------------------------------------------------
(* The planner alone, on foreign-key graphs over three tables: the inputs  *)
(* of order_tables_by_dependency.  "x" is a table outside the target.      *)

GraphNames == {"a", "b", "c"}

graph_table(t, refs) ==
    DbTable(<<id_col>> \o MapSeq(LAMBDA r : DbColumn(r \o "_id", "integer", TRUE, None), refs),
            MapSeq(LAMBDA r : DbForeignKey(r \o "_id", r, "id"), refs),
            <<pkey(t)>>)

GraphRefs == {S \in SUBSET (GraphNames \cup {"x"}) : Cardinality(S) <= MaxGraphFks}

GraphSchemas ==
    {DbSchema([t \in GraphNames |-> graph_table(t, SortNames(f[t]))]) :
         f \in [GraphNames -> GraphRefs]}

\* the tables that exist already, without foreign keys
GraphCurrents ==
    {DbSchema([t \in E |-> graph_table(t, <<>>)]) :
         E \in {E \in SUBSET GraphNames : Cardinality(E) <= 1}}

InitOrder ==
    /\ current \in GraphCurrents
    /\ target \in GraphSchemas
    /\ db = catalog_of(current)
    /\ pc = "generate"
    /\ migrations = <<>>
    /\ next_stmt = 0
    /\ tx = "none"
    /\ txdb = db
    /\ wire = <<>>
    /\ result = None
    /\ pre_db = db
    /\ calls = <<>>
    /\ ordered_tables = <<>>
    /\ toml_file = ""
    /\ rows = NoRows
    /\ peer = NoCall

SpecOrder == InitOrder /\ [][GenerateMigrations]_vars

-----------------------------------------------------------------------------
(* Reading a plan: what each statement is and which names it carries *)

\* the text after `ALTER TABLE "<t>"`
alter_rest(sql) == unquote_head(Drop(sql, Len("ALTER TABLE "))).rest

is_drop_fk(sql) ==
    starts_with(sql, "ALTER TABLE \"") /\ starts_with(alter_rest(sql), " DROP CONSTRAINT ")

is_create_table(sql) == starts_with(sql, "CREATE TABLE ")

is_add_column(sql) ==
    starts_with(sql, "ALTER TABLE \"") /\ starts_with(alter_rest(sql), " ADD COLUMN ")

is_alter_column(sql) ==
    starts_with(sql, "ALTER TABLE \"") /\ starts_with(alter_rest(sql), " ALTER COLUMN ")

is_create_index(sql) ==
    starts_with(sql, "CREATE INDEX ") \/ starts_with(sql, "CREATE UNIQUE INDEX ")

is_add_fk(sql) ==
    starts_with(sql, "ALTER TABLE \"") /\ starts_with(alter_rest(sql), " ADD CONSTRAINT ")

is_drop_index(sql) == starts_with(sql, "DROP INDEX ")

\* the phase a statement belongs to, 0 when it is none of the six kinds
statement_phase(sql) ==
    CASE is_drop_fk(sql) -> 1
      [] is_create_table(sql) -> 2
      [] is_add_column(sql) \/ is_alter_column(sql) -> 3
      [] is_create_index(sql) -> 4
      [] is_add_fk(sql) -> 5
      [] is_drop_index(sql) -> 6
      [] OTHER -> 0

\* the first quoted identifier of a statement: the table of CREATE TABLE and
\* ALTER TABLE, the index of CREATE INDEX and DROP INDEX
first_name(sql) == unquote_head(Drop(sql, Find(sql, "\"", 1) - 1)).name

\* the table a CREATE INDEX statement is ON
index_table(sql) ==
    unquote_head(Drop(sql, Find(sql, " ON \"", 1) + Len(" ON ") - 1)).name

\* generate_migrations has just run: its plan is in `migrations`
Planned ==
    \/ pc = "begin"
    \/ pc = "returned" /\ result = Some(RetOk(<<>>))

-----------------------------------------------------------------------------
(* C1: in every plan all drop-foreign-key statements come first, then all  *)
(* CREATE TABLE, then all ADD COLUMN / ALTER COLUMN, then all CREATE       *)
(* INDEX, then all add-foreign-key, then all DROP INDEX statements.        *)
C1_PhaseOrder ==
    Planned =>
    LET phase == [i \in 1..Len(migrations) |-> statement_phase(migrations[i])]
    IN  /\ \A i \in 1..Len(migrations) : phase[i] \in 1..6
        /\ \A i, j \in 1..Len(migrations) : i < j => phase[i] <= phase[j]

\* a plan that holds statements of all six phases
C1_Witness ==
    /\ Planned
    /\ Len(migrations) >= 6
    /\ {statement_phase(migrations[i]) : i \in 1..Len(migrations)} = 1..6

(* C2: the plan from a schema to itself is empty, for every schema whose   *)
(* tables have unique column names.                                        *)
unique_column_names(schema) ==
    \A t \in DOMAIN schema.tables :
        Cardinality({c.name : c \in Range(schema.tables[t].columns)})
            = Len(schema.tables[t].columns)

C2_SelfDiffEmpty ==
    (Planned /\ current = target /\ unique_column_names(target)) => migrations = <<>>

\* the runner planned for a target equal to the introspected, non-empty schema
C2_Witness ==
    /\ Planned
    /\ current = target
    /\ Cardinality(DOMAIN target.tables) = 2
    /\ \E t \in DOMAIN target.tables :
           /\ target.tables[t].foreign_keys # <<>>
           /\ Len(target.tables[t].indexes) >= 2

\* the first call committed a non-empty plan
first_committed ==
    Len(calls) >= 1 /\ calls[1].result.ok /\ calls[1].result.value # <<>>

(* C3: after a first migrate committed a non-empty list, the next migrate  *)
(* with the same target computes an empty plan and returns an empty list.  *)
C3_SecondMigrateEmpty ==
    first_committed =>
        /\ (Len(calls) = 1 /\ pc = "begin") => migrations = <<>>
        /\ (Len(calls) = 2 /\ calls[2].result.ok) => calls[2].result.value = <<>>

\* the catalog holds every table of the schema with each of its columns,
\* indexes and foreign keys as the schema defines them
Conforms(cat, schema) ==
    \A t \in DOMAIN schema.tables :
        /\ t \in DOMAIN cat
        /\ \A c \in Range(schema.tables[t].columns) : c \in Range(cat[t].columns)
        /\ \A ix \in Range(schema.tables[t].indexes) :
               \E px \in Range(cat[t].indexes) :
                   /\ px.name = ix.name
                   /\ px.columns = ix.columns
                   /\ px.is_unique = ix.is_unique
                   /\ px.index_type = ix.index_type
        /\ \A fk \in Range(schema.tables[t].foreign_keys) :
               \E con \in Range(cat[t].constraints) :
                   /\ con.column = fk.column
                   /\ con.referenced_table = fk.referenced_table
                   /\ con.referenced_column = fk.referenced_column

(* C4: once every statement of the plan has executed, in order, on the     *)
(* database the plan was computed from, the database holds every table,    *)
(* column, index and foreign key of the target as the target defines it.   *)
C4_PlanReachesTarget ==
    /\ (pc = "commit" /\ unique_column_names(target)) => Conforms(txdb, target)
    /\ (pc = "returned" /\ result = Some(RetOk(<<>>)) /\ unique_column_names(target))
           => Conforms(db, target)

\* the tables order_tables_by_dependency is given
NewTables == DOMAIN target.tables \ DOMAIN current.tables

\* every foreign key of the i-th table of out points to an earlier table of
\* out, to a table outside out, or to the table itself
fks_point_back(out, i) ==
    \A fk \in Range(target.tables[out[i]].foreign_keys) :
        \/ \E j \in 1..(i - 1) : out[j] = fk.referenced_table
        \/ fk.referenced_table \notin Range(out)
        \/ fk.referenced_table = out[i]

is_permutation(out, S) == Range(out) = S /\ Len(out) = Cardinality(S)

\* the tables CREATE TABLE statements of the plan create, in plan order
created_tables == MapSeq(first_name, SelectSeq(migrations, is_create_table))

\* the new tables that can never be ordered: the largest set of new tables
\* in which every table has a foreign key to another table of the set
Stalled ==
    UNION {R \in SUBSET NewTables :
               \A t \in R : \E fk \in Range(target.tables[t].foreign_keys) :
                   fk.referenced_table \in R \ {t}}

(* C5 as stated: the output is a permutation of the new tables in which    *)
(* every table's foreign keys point to an earlier table, to a table that   *)
(* is not new, or to the table itself, and the plan creates the tables in  *)
(* that order.                                                             *)
C5_EveryTableOrdered ==
    Planned =>
        /\ is_permutation(ordered_tables, NewTables)
        /\ \A i \in 1..Len(ordered_tables) : fks_point_back(ordered_tables, i)
        /\ created_tables = ordered_tables

(* C5: the output is a permutation of the new tables; every table outside  *)
(* the stalled set has its foreign keys pointing to an earlier table, to a *)
(* table that is not new, or to itself; the stalled tables come last; and  *)
(* the plan creates the tables in that order.                              *)
C5_OrderedOutsideCycles ==
    Planned =>
        /\ is_permutation(ordered_tables, NewTables)
        /\ \A i \in 1..Len(ordered_tables) :
               ordered_tables[i] \notin Stalled => fks_point_back(ordered_tables, i)
        /\ \A i, j \in 1..Len(ordered_tables) :
               (ordered_tables[i] \in Stalled /\ ordered_tables[j] \notin Stalled) => j < i
        /\ created_tables = ordered_tables

\* three new tables: two in a foreign-key cycle, flushed after the third
C5_Witness ==
    /\ Planned
    /\ Cardinality(NewTables) = 3
    /\ Cardinality(Stalled) = 2
    /\ ordered_tables[1] \notin Stalled
    /\ created_tables = ordered_tables

\* the wire of a transaction in which the first k statements of the plan
\* were executed; last_ok is the outcome of the k-th
executed_prefix(k, last_ok) ==
    <<Sent("begin", "", TRUE)>>
        \o [i \in 1..k |-> Sent("execute", migrations[i], i < k \/ last_ok)]

statement_failed ==
    \E i \in 1..Len(wire) : wire[i].op = "execute" /\ ~wire[i].ok

(* C6: when a statement fails or its execution is cancelled, it is the     *)
(* last thing sent (no later statement, no COMMIT, no retry), the          *)
(* statements before it are the plan's in order, the transaction is rolled *)
(* back, the database is what it was before the call, and the call has     *)
(* returned an error that contains the failing statement, or nothing if    *)
(* it was cancelled.                                                       *)
C6_FailureRollsBack ==
    statement_failed =>
        LET k == Len(wire) - 1
        IN  /\ k \in 1..Len(migrations)
            /\ wire = executed_prefix(k, FALSE)
            /\ tx = "rolled_back"
            /\ db = pre_db
            /\ \/ pc = "cancelled" /\ result = None
               \/ /\ pc = "returned"
                  /\ result # None
                  /\ ~result[1].ok
                  /\ contains(result[1].message, migrations[k])

\* a statement failed after another one had changed the working catalog
C6_Witness ==
    /\ statement_failed
    /\ Len(wire) >= 3
    /\ pc = "returned"
    /\ ~result[1].ok
    /\ db = pre_db

(* C7: a call that returns a non-empty list has sent BEGIN, then every     *)
(* statement of the plan exactly once in plan order, each successful, then *)
(* COMMIT, and the list it returns is the plan.                            *)
C7_SuccessRunsPlanInOrder ==
    (pc = "returned" /\ result # None /\ result[1].ok /\ result[1].value # <<>>) =>
        /\ wire = Append(executed_prefix(Len(migrations), TRUE), Sent("commit", "", TRUE))
        /\ result[1].value = migrations
        /\ tx = "committed"
        /\ db = txdb

\* a committed plan of at least three statements
C7_Witness ==
    /\ pc = "returned"
    /\ result # None
    /\ result[1].ok
    /\ Len(result[1].value) >= 3
    /\ tx = "committed"

\* generate_migrations has run in the current call
PlanComputed ==
    /\ pc \notin {"start", "generate", "panicked"}
    /\ result # Some(RetErr("read_db_schema"))

(* C8: when the computed plan is empty the call has returned Ok with the   *)
(* empty list, nothing was sent to the database, no transaction exists and *)
(* the database is unchanged.                                              *)
C8_EmptyPlanIsNoOp ==
    (PlanComputed /\ migrations = <<>>) =>
        /\ pc = "returned"
        /\ result = Some(RetOk(<<>>))
        /\ wire = <<>>
        /\ tx = "none"
        /\ db = pre_db

\* an empty plan for a database that holds tables
C8_Witness ==
    /\ PlanComputed
    /\ migrations = <<>>
    /\ pc = "returned"
    /\ DOMAIN db # {}
    /\ DOMAIN target.tables # {}

\* the tables of current that target does not have, and their indexes
AbsentTables == DOMAIN current.tables \ DOMAIN target.tables

AbsentIndexes ==
    UNION {{ix.name : ix \in Range(current.tables[t].indexes)} : t \in AbsentTables}

(* C9: no statement of a plan is a DROP TABLE or a DROP COLUMN, and no     *)
(* statement names a table that is in current but not in target, or an     *)
(* index of such a table.                                                  *)
C9_AbsentTablesUntouched ==
    Planned =>
        \A i \in 1..Len(migrations) :
            LET sql == migrations[i]
            IN  /\ ~contains(sql, "DROP TABLE")
                /\ ~contains(sql, "DROP COLUMN")
                /\ statement_phase(sql) \in 1..6
                /\ IF is_drop_index(sql) THEN first_name(sql) \notin AbsentIndexes
                   ELSE IF is_create_index(sql)
                   THEN index_table(sql) \notin AbsentTables
                            /\ first_name(sql) \notin AbsentIndexes
                   ELSE first_name(sql) \notin AbsentTables

\* a non-empty plan while a table with a foreign key and a secondary index
\* is missing from the target
C9_Witness ==
    /\ Planned
    /\ migrations # <<>>
    /\ \E t \in AbsentTables :
           /\ current.tables[t].foreign_keys # <<>>
           /\ Len(current.tables[t].indexes) >= 2

(* C10: no CREATE INDEX and no DROP INDEX statement of a plan names an     *)
(* index whose name ends in _pkey.                                         *)
C10_NoPkeyIndexStatement ==
    Planned =>
        \A i \in 1..Len(migrations) :
            (is_create_index(migrations[i]) \/ is_drop_index(migrations[i]))
                => ~ends_with(first_name(migrations[i]), "_pkey")

\* a plan with a CREATE INDEX for a target that brings a new primary key
\* and lacks a primary key the database has
C10_Witness ==
    /\ Planned
    /\ \E i \in 1..Len(migrations) : is_create_index(migrations[i])
    /\ \E t \in NewTables : \E ix \in Range(target.tables[t].indexes) :
           ends_with(ix.name, "_pkey")
    /\ \E t \in DOMAIN target.tables \cap DOMAIN current.tables :
           \E ix \in Range(find_dropped_indexes(current.tables[t], target.tables[t])) :
               ends_with(ix.name, "_pkey")

-----------------------------------------------------------------------------
\* the names an ADD CONSTRAINT statement carries
add_fk_parts(sql) ==
    LET qt == unquote_head(Drop(sql, Len("ALTER TABLE ")))
        qn == unquote_head(Drop(qt.rest, Len(" ADD CONSTRAINT ")))
        qc == unquote_head(Drop(qn.rest, Len(" FOREIGN KEY (")))
        qrt == unquote_head(Drop(qc.rest, Len(") REFERENCES ")))
        qrc == unquote_head(Drop(qrt.rest, Len("(")))
    IN  [table |-> qt.name, constraint |-> qn.name,
         fk |-> DbForeignKey(qc.name, qrt.name, qrc.name)]

\* the positions of the plan's ADD CONSTRAINT statements for this foreign key
add_fk_positions(t, fk) ==
    {i \in 1..Len(migrations) :
         /\ is_add_fk(migrations[i])
         /\ add_fk_parts(migrations[i]).table = t
         /\ add_fk_parts(migrations[i]).fk = fk}

(* C11: the CREATE TABLE of a new table holds none of its foreign keys;    *)
(* each foreign key of a new table is exactly one ADD CONSTRAINT statement *)
(* and it comes after every CREATE TABLE of the plan.                      *)
C11_ForeignKeysAfterCreates ==
    Planned =>
        /\ \A i \in 1..Len(migrations) :
               is_create_table(migrations[i]) =>
                   /\ ~contains(migrations[i], "FOREIGN KEY")
                   /\ ~contains(migrations[i], "REFERENCES")
        /\ \A t \in NewTables : \A fk \in Range(target.tables[t].foreign_keys) :
               /\ Cardinality(add_fk_positions(t, fk)) = 1
               /\ \A i \in add_fk_positions(t, fk) : \A j \in 1..Len(migrations) :
                      is_create_table(migrations[j]) => j < i

\* two new tables that reference each other
C11_Witness ==
    /\ Planned
    /\ NewTables = {"users", "posts"}
    /\ \E fk \in Range(target.tables["users"].foreign_keys) : fk.referenced_table = "posts"
    /\ \E fk \in Range(target.tables["posts"].foreign_keys) : fk.referenced_table = "users"
    /\ Cardinality({i \in 1..Len(migrations) : is_add_fk(migrations[i])}) = 2

\* the character of s at position i, "" outside s
char_at(s, i) == IF i < 1 \/ i > Len(s) THEN "" ELSE SubSeq(s, i, i)

\* a character an unquoted identifier can hold
is_ident_char(ch) == ch # "" /\ Find(Ascii, ch, 1) # 0

\* the positions at which name stands in sql as a whole word
word_positions(sql, name) ==
    {p \in 1..(Len(sql) - Len(name) + 1) :
         /\ SubSeq(sql, p, p + Len(name) - 1) = name
         /\ ~is_ident_char(char_at(sql, p - 1))
         /\ ~is_ident_char(char_at(sql, p + Len(name)))}

\* the table names and column names of a schema
schema_names(schema) ==
    DOMAIN schema.tables
        \cup UNION {column_names(schema.tables[t]) : t \in DOMAIN schema.tables}

(* C12: wherever a table name or a column name stands in a statement of a  *)
(* plan, it stands between double quotes.                                  *)
C12_IdentifiersQuoted ==
    Planned =>
        \A i \in 1..Len(migrations) :
            \A name \in schema_names(current) \cup schema_names(target) :
                \A p \in word_positions(migrations[i], name) :
                    /\ char_at(migrations[i], p - 1) = "\""
                    /\ char_at(migrations[i], p + Len(name)) = "\""

-----------------------------------------------------------------------------
(* The planner alone on pairs of schemas that need not come from a         *)
(* database: tables with several new columns, retyped timestamp columns,   *)
(* composite primary keys and indexes whose names end in _pkey.            *)

created_tz == DbColumn("created_at", "timestamp with time zone", TRUE, None)
serial_no == DbColumn("no", "bigint", FALSE, Some("nextval('users_no_seq'::regclass)"))

EmitUsersShapes ==
    UsersShapes \o
    << DbTable(<<id_col, email_col>>, <<>>,
               <<DbIndex("users_email_pkey", <<"email">>, TRUE, "btree")>>),
       DbTable(<<id_col, email_col>>, <<>>,
               <<DbIndex("users_email_pkey", <<"email">>, TRUE, "btree"), pkey("users")>>),
       DbTable(<<id_col, email_text, created_tz>>, <<>>,
               <<DbIndex("users_pkey", <<"id", "email">>, TRUE, "btree")>>),
       DbTable(<<id_col, serial_no>>, <<>>, <<pkey("users")>>),
       DbTable(<<id_col>>, <<>>,
               <<pkey("users"), DbIndex("lookup_idx", <<"id">>, FALSE, "btree")>>) >>

EmitPostsShapes ==
    <<PostsShapes[1], PostsShapes[2], PostsShapes[3], PostsShapes[6],
      DbTable(<<id_col, author_col>>, <<>>,
              <<pkey("posts"), DbIndex("lookup_idx", <<"author_id">>, FALSE, "btree")>>),
      DbTable(<<id_col, author_col>>,
              <<DbForeignKey("author_id", "users", "id"),
                DbForeignKey("author_id", "accounts", "id")>>,
              <<pkey("posts")>>)>>

EmitSchemas ==
    {DbSchema([t \in (IF u = 0 THEN {} ELSE {"users"}) \cup (IF p = 0 THEN {} ELSE {"posts"}) |->
                  IF t = "users" THEN EmitUsersShapes[u] ELSE EmitPostsShapes[p]]) :
         u \in 0..Len(EmitUsersShapes), p \in 0..Len(EmitPostsShapes)}

InitEmit ==
    /\ current \in EmitSchemas
    /\ target \in EmitSchemas
    /\ db = catalog_of(current)
    /\ pc = "generate"
    /\ migrations = <<>>
    /\ next_stmt = 0
    /\ tx = "none"
    /\ txdb = db
    /\ wire = <<>>
    /\ result = None
    /\ pre_db = db
    /\ calls = <<>>
    /\ ordered_tables = <<>>
    /\ toml_file = ""
    /\ rows = NoRows
    /\ peer = NoCall

SpecEmit == InitEmit /\ [][GenerateMigrations]_vars

\* the column an ADD COLUMN or ALTER COLUMN statement names
column_of(sql) ==
    LET rest == alter_rest(sql)
    IN  unquote_head(Drop(rest, IF starts_with(rest, " ADD COLUMN ")
                                THEN Len(" ADD COLUMN ")
                                ELSE Len(" ALTER COLUMN "))).name

\* the statement is about table t
concerns(sql, t) ==
    IF is_drop_index(sql)
    THEN /\ contains_key(current, t)
         /\ first_name(sql) \in {ix.name : ix \in Range(current.tables[t].indexes)}
    ELSE IF is_create_index(sql) THEN index_table(sql) = t
    ELSE first_name(sql) = t

count(seq, x) == Cardinality({i \in 1..Len(seq) : seq[i] = x})

same_statements(a, b) ==
    /\ Len(a) = Len(b)
    /\ \A x \in Range(a) \cup Range(b) : count(a, x) = count(b, x)

(* C13: under every other iteration order of the maps the plan for the     *)
(* same (current, target) holds the same statements as often, and the      *)
(* statements about any one table stand in the same order; the columns a   *)
(* table gains are added in the target's column order.                     *)
C13_OrderOnlyAcrossTables ==
    Planned =>
        /\ \A order \in Orders(current, target) :
               LET other == generate_migrations(current, target, order)
               IN  /\ same_statements(migrations, other)
                   /\ \A t \in DOMAIN current.tables \cup DOMAIN target.tables :
                          SelectSeq(migrations, LAMBDA sql : concerns(sql, t))
                              = SelectSeq(other, LAMBDA sql : concerns(sql, t))
        /\ \A t \in DOMAIN current.tables \cap DOMAIN target.tables :
               MapSeq(column_of,
                      SelectSeq(migrations,
                                LAMBDA sql : is_add_column(sql) /\ first_name(sql) = t))
                   = MapSeq(LAMBDA c : c.name,
                            SelectSeq(target.tables[t].columns,
                                      LAMBDA c : c.name \notin column_names(current.tables[t])))

\* both tables are altered, one of them gains two columns
C13_Witness ==
    /\ Planned
    /\ DOMAIN current.tables = {"users", "posts"}
    /\ DOMAIN target.tables = {"users", "posts"}
    /\ Cardinality({i \in 1..Len(migrations) :
                        is_add_column(migrations[i]) /\ first_name(migrations[i]) = "users"}) = 2
    /\ \E i \in 1..Len(migrations) : first_name(migrations[i]) = "posts"

\* the constraint a DROP CONSTRAINT statement names
drop_fk_constraint(sql) ==
    unquote_head(Drop(alter_rest(sql), Len(" DROP CONSTRAINT IF EXISTS "))).name

drop_fk_positions(t, fk) ==
    {i \in 1..Len(migrations) :
         /\ is_drop_fk(migrations[i])
         /\ first_name(migrations[i]) = t
         /\ drop_fk_constraint(migrations[i]) = t \o "_" \o fk.column \o "_fkey"}

same_pair(f, g) == f.column = g.column /\ f.referenced_table = g.referenced_table

(* C17: for a table in both schemas, a foreign key of current is dropped   *)
(* iff no foreign key of target has its (column, referenced_table) pair    *)
(* (the plan holds one DROP CONSTRAINT, named after the column, for each   *)
(* such foreign key of the column and no other),                           *)
(* and a foreign key of target is added iff no foreign key of current has  *)
(* its pair; a drop of a column's foreign key precedes the add of its      *)
(* replacement, and a change of referenced_column alone gives no           *)
(* statement.                                                              *)
C17_ForeignKeyIdentityIsPair ==
    Planned =>
        \A t \in DOMAIN current.tables \cap DOMAIN target.tables :
            LET cur_fks == Range(current.tables[t].foreign_keys)
                tgt_fks == Range(target.tables[t].foreign_keys)
            IN  /\ \A f \in cur_fks :
                       Cardinality(drop_fk_positions(t, f))
                           = Cardinality({k \in 1..Len(current.tables[t].foreign_keys) :
                                 /\ current.tables[t].foreign_keys[k].column = f.column
                                 /\ ~\E g \in tgt_fks :
                                        same_pair(current.tables[t].foreign_keys[k], g)})
                /\ \A g \in tgt_fks :
                       add_fk_positions(t, g) # {} <=> ~\E f \in cur_fks : same_pair(f, g)
                /\ \A f \in cur_fks : \A g \in tgt_fks :
                       \A i \in drop_fk_positions(t, f) : \A j \in add_fk_positions(t, g) : i < j
                /\ (\A f \in cur_fks : \E g \in tgt_fks : same_pair(f, g))
                       /\ (\A g \in tgt_fks : \E f \in cur_fks : same_pair(f, g))
                   => ~\E i \in 1..Len(migrations) :
                          /\ is_drop_fk(migrations[i]) \/ is_add_fk(migrations[i])
                          /\ first_name(migrations[i]) = t

\* the foreign key of posts.author_id is moved from users to accounts
C17_Witness ==
    /\ Planned
    /\ contains_key(current, "posts")
    /\ contains_key(target, "posts")
    /\ \E f \in Range(current.tables["posts"].foreign_keys) :
           \E g \in Range(target.tables["posts"].foreign_keys) :
               /\ f.column = g.column
               /\ f.referenced_table # g.referenced_table
               /\ drop_fk_positions("posts", f) # {}
               /\ add_fk_positions("posts", g) # {}

\* what an ALTER COLUMN statement does to its column: the text after the name
alter_action(sql) == unquote_head(Drop(alter_rest(sql), Len(" ALTER COLUMN "))).rest

alter_positions(t, c) ==
    {i \in 1..Len(migrations) :
         /\ is_alter_column(migrations[i])
         /\ first_name(migrations[i]) = t
         /\ column_of(migrations[i]) = c}

column_named(table, c) == CHOOSE col \in Range(table.columns) : col.name = c

(* C18: for a table in both schemas and a column name in both, the plan    *)
(* alters the column iff data_type, is_nullable or default differ; the     *)
(* alteration is three consecutive statements: TYPE, then SET NOT NULL or  *)
(* DROP NOT NULL by the target's nullability, then SET DEFAULT or DROP     *)
(* DEFAULT by the target's default.                                        *)
C18_AlterationIsThreeStatements ==
    Planned =>
        \A t \in DOMAIN current.tables \cap DOMAIN target.tables :
            \A c \in column_names(current.tables[t]) \cap column_names(target.tables[t]) :
                LET old == column_named(current.tables[t], c)
                    new == column_named(target.tables[t], c)
                    at == alter_positions(t, c)
                IN  /\ at # {} <=> \/ old.data_type # new.data_type
                                   \/ old.is_nullable # new.is_nullable
                                   \/ old.default # new.default
                    /\ at # {} =>
                           \E k \in at :
                               /\ at = {k, k + 1, k + 2}
                               /\ starts_with(alter_action(migrations[k]), " TYPE ")
                               /\ alter_action(migrations[k + 1])
                                      = IF new.is_nullable THEN " DROP NOT NULL"
                                                           ELSE " SET NOT NULL"
                               /\ alter_action(migrations[k + 2])
                                      = IF new.default = None THEN " DROP DEFAULT"
                                        ELSE " SET DEFAULT " \o new.default[1]

\* users.id only gains a default: its type is unchanged and TYPE is emitted
C18_Witness ==
    /\ Planned
    /\ contains_key(current, "users")
    /\ contains_key(target, "users")
    /\ column_named(current.tables["users"], "id").data_type
           = column_named(target.tables["users"], "id").data_type
    /\ column_named(target.tables["users"], "id").default # None
    /\ \E k \in alter_positions("users", "id") :
           starts_with(alter_action(migrations[k]), " TYPE ")

\* the column definitions and the PRIMARY KEY clause of a CREATE TABLE statement
create_table_parts(sql) ==
    LET q == unquote_head(Drop(sql, Len("CREATE TABLE ")))
    IN  Split(SubSeq(q.rest, Len(" (\n  ") + 1, Len(q.rest) - Len("\n)")), ",\n  ")

\* the type a column definition "c" <type>[ NOT NULL][ DEFAULT <d>] renders
rendered_type(def) ==
    LET rest == Drop(unquote_head(def).rest, 1)
        d == Find(rest, " DEFAULT ", 1)
        before == IF d = 0 THEN rest ELSE SubSeq(rest, 1, d - 1)
    IN  IF ends_with(before, " NOT NULL")
        THEN SubSeq(before, 1, Len(before) - Len(" NOT NULL"))
        ELSE before

add_column_def(sql) == Drop(alter_rest(sql), Len(" ADD COLUMN "))

is_alter_type(sql) == is_alter_column(sql) /\ starts_with(alter_action(sql), " TYPE ")

\* the two types of ALTER COLUMN "c" TYPE <type> USING "c"::<type>
alter_type(sql) ==
    LET a == alter_action(sql)
    IN  SubSeq(a, Len(" TYPE ") + 1, Find(a, " USING ", 1) - 1)

alter_cast(sql) ==
    LET a == alter_action(sql)
    IN  Drop(a, Find(a, "\"::", 1) + Len("\"::") - 1)

\* the mapping as the specification tabulates it
type_name_mapping(ty) ==
    IF ty = "character varying" THEN "VARCHAR(255)"
    ELSE IF ty = "timestamp without time zone" THEN "TIMESTAMP"
    ELSE IF ty = "timestamp with time zone" THEN "TIMESTAMPTZ"
    ELSE ty

\* CREATE TABLE and ADD COLUMN render the mapped type, no statement of
\* another kind than these and ALTER COLUMN TYPE holds a mapped type name
mapping_in_create_and_add ==
    \A i \in 1..Len(migrations) :
        LET sql == migrations[i]
        IN  /\ is_add_column(sql) =>
                   rendered_type(add_column_def(sql))
                       = type_name_mapping(column_named(target.tables[first_name(sql)],
                                                        column_of(sql)).data_type)
            /\ is_create_table(sql) =>
                   \A col \in Range(target.tables[first_name(sql)].columns) :
                       \E part \in Range(create_table_parts(sql)) :
                           /\ starts_with(part, "\"" \o col.name \o "\" ")
                           /\ rendered_type(part) = type_name_mapping(col.data_type)
            /\ ~is_add_column(sql) /\ ~is_create_table(sql) /\ ~is_alter_type(sql) =>
                   /\ ~contains(sql, "VARCHAR(255)")
                   /\ ~contains(sql, "TIMESTAMP")

(* C20: the type-name mapping is applied to the type rendered in CREATE    *)
(* TABLE and ADD COLUMN statements and to no other statement; the ALTER    *)
(* COLUMN TYPE statement renders the target's data_type unmapped.          *)
C20_AlterTypeUnmapped ==
    Planned =>
        /\ mapping_in_create_and_add
        /\ \A i \in 1..Len(migrations) :
               is_alter_type(migrations[i]) =>
                   LET new == column_named(target.tables[first_name(migrations[i])],
                                           column_of(migrations[i]))
                   IN  /\ alter_type(migrations[i]) = new.data_type
                       /\ alter_cast(migrations[i]) = new.data_type

(* C20, amended: the mapping is applied in CREATE TABLE, in ADD COLUMN     *)
(* and in both places of the ALTER COLUMN TYPE statement (the new type     *)
(* and the USING cast), and in no other statement.                         *)
C20_AlterTypeMapped ==
    Planned =>
        /\ mapping_in_create_and_add
        /\ \A i \in 1..Len(migrations) :
               is_alter_type(migrations[i]) =>
                   LET new == column_named(target.tables[first_name(migrations[i])],
                                           column_of(migrations[i]))
                   IN  /\ alter_type(migrations[i]) = type_name_mapping(new.data_type)
                       /\ alter_cast(migrations[i]) = type_name_mapping(new.data_type)

\* a column is retyped to character varying: the statement says VARCHAR(255)
C20_Witness ==
    /\ Planned
    /\ \E i \in 1..Len(migrations) :
           /\ is_alter_type(migrations[i])
           /\ column_named(target.tables[first_name(migrations[i])],
                           column_of(migrations[i])).data_type = "character varying"
           /\ alter_type(migrations[i]) = "VARCHAR(255)"

\* the column list of the PRIMARY KEY clause of a CREATE TABLE statement,
\* None when the statement has no such clause
primary_key_clause(sql) ==
    LET pks == SelectSeq(create_table_parts(sql), LAMBDA p : starts_with(p, "PRIMARY KEY ("))
    IN  IF pks = <<>> THEN None
        ELSE Some(Split(SubSeq(pks[1], Len("PRIMARY KEY (") + 1, Len(pks[1]) - 1), ", "))

(* C19: a CREATE TABLE statement has a PRIMARY KEY clause iff the table    *)
(* has an index named exactly <table name>_pkey, and the clause lists      *)
(* that index's columns.                                                   *)
C19_PrimaryKeyFromTablePkey ==
    Planned =>
        \A i \in 1..Len(migrations) :
            is_create_table(migrations[i]) =>
                LET t == first_name(migrations[i])
                    own == {ix \in Range(target.tables[t].indexes) : ix.name = t \o "_pkey"}
                    clause == primary_key_clause(migrations[i])
                IN  /\ clause # None <=> own # {}
                    /\ clause # None => \E ix \in own : clause[1] = ix.columns

\* the schemas read_db_schema returns for some database
IntrospectedSchemas ==
    UNION {{read_db_schema(column_rows(cat), fk_rows(cat), index_rows(cat), index_order) :
                index_order \in Perms(index_map_keys(index_rows(cat)))} : cat \in Catalogs}

\* equal schemas, with the data types compared after the type-name mapping
\* and the indexes of a table compared as a set
equal_normalized(a, b) ==
    /\ DOMAIN a.tables = DOMAIN b.tables
    /\ \A t \in DOMAIN a.tables :
        /\ MapSeq(LAMBDA c : [c EXCEPT !.data_type = type_name_mapping(c.data_type)],
                  a.tables[t].columns)
               = MapSeq(LAMBDA c : [c EXCEPT !.data_type = type_name_mapping(c.data_type)],
                        b.tables[t].columns)
        /\ a.tables[t].foreign_keys = b.tables[t].foreign_keys
        /\ Range(a.tables[t].indexes) = Range(b.tables[t].indexes)
        /\ Len(a.tables[t].indexes) = Len(b.tables[t].indexes)

\* the first call found an empty database and committed the plan for target;
\* the database has just been introspected again
introspected_after_apply ==
    /\ pc = "generate"
    /\ Len(calls) = 1
    /\ calls[1].result.ok
    /\ DOMAIN calls[1].pre = {}

(* C14: for a schema S the introspector could produce, executing the plan  *)
(* from the empty schema to S on an empty database and introspecting the   *)
(* database gives a schema equal to S, data types compared after the       *)
(* type-name mapping.                                                      *)
C14_RoundTrip ==
    (introspected_after_apply /\ target \in IntrospectedSchemas)
        => equal_normalized(current, target)

(* C15: the introspector returns an error value, and no partial schema,    *)
(* whenever one of its queries fails or a returned row has an unexpected   *)
(* shape; it never aborts in another way.                                  *)
C15_IntrospectionFailsWithError ==
    /\ pc # "panicked"
    /\ result = Some(RetErr("read_db_schema")) => pc = "returned" /\ current = EmptySchema

-----------------------------------------------------------------------------
(* The introspect command's writer: write_schema_toml / TomlSchema::        *)
(* from_schema followed by write_file.  The schema to write is in current.  *)

TomlTable(name, table) ==
    [name |-> name, column |-> table.columns, foreign_key |-> table.foreign_keys,
     index |-> table.indexes]

\* a table list left in the order the map gave it
sort_by_name_unsorted(tables) == tables

\* tables.sort_by(|a, b| a.name.cmp(&b.name)): a stable sort on the name
RECURSIVE sort_by_name(_)
sort_by_name(tables) ==
    IF tables = <<>> THEN <<>>
    ELSE LET sorted == sort_by_name(SubSeq(tables, 1, Len(tables) - 1))
             last == tables[Len(tables)]
             before == SelectSeq(sorted, LAMBDA x : ~str_lt(last.name, x.name))
             after == SelectSeq(sorted, LAMBDA x : str_lt(last.name, x.name))
         IN  before \o <<last>> \o after

toml_string(v) == "\"" \o v \o "\""

toml_bool(b) == IF b THEN "true" ELSE "false"

\* toml::to_string_pretty of a TomlSchema: one [[table]] block per element of
\* `table`, in Vec order; a None default and an empty foreign_key or index
\* list are not written
to_string_pretty(tables) ==
    LET column(c) ==
            "\n[[table.column]]\nname = " \o toml_string(c.name)
                \o "\ndata_type = " \o toml_string(c.data_type)
                \o "\nis_nullable = " \o toml_bool(c.is_nullable) \o "\n"
                \o (IF c.default = None THEN ""
                    ELSE "default = " \o toml_string(c.default[1]) \o "\n")
        foreign_key(f) ==
            "\n[[table.foreign_key]]\ncolumn = " \o toml_string(f.column)
                \o "\nreferenced_table = " \o toml_string(f.referenced_table)
                \o "\nreferenced_column = " \o toml_string(f.referenced_column) \o "\n"
        index(ix) ==
            "\n[[table.index]]\nname = " \o toml_string(ix.name)
                \o "\ncolumns = [" \o join(MapSeq(toml_string, ix.columns), ", ") \o "]"
                \o "\nis_unique = " \o toml_bool(ix.is_unique)
                \o "\nindex_type = " \o toml_string(ix.index_type) \o "\n"
        block(t) ==
            "[[table]]\nname = " \o toml_string(t.name) \o "\n"
                \o join(MapSeq(column, t.column), "")
                \o join(MapSeq(foreign_key, t.foreign_key), "")
                \o join(MapSeq(index, t.index), "")
    IN  join(MapSeq(block, tables), "\n")

\* schema.tables.into_iter().map(..).collect(), sort_by, to_string_pretty,
\* fs::write
WriteSchemaToml ==
    /\ pc = "write_toml"
    /\ \E order \in Perms(DOMAIN current.tables) :
           toml_file' = to_string_pretty(
                            sort_by_name(MapSeq(LAMBDA name : TomlTable(name, current.tables[name]),
                                                Iterate(DOMAIN current.tables, order))))
    /\ pc' = "written"
    /\ UNCHANGED <<peer, rows, db, target, current, migrations, next_stmt, tx, txdb, wire, result, pre_db,
                   calls, ordered_tables>>

\* to_string_pretty(..)? or fs::write(..)? returns the error: no file content
WriteSchemaTomlFails ==
    /\ pc = "write_toml"
    /\ pc' = "write_failed"
    /\ UNCHANGED <<peer, rows, db, target, current, migrations, next_stmt, tx, txdb, wire, result, pre_db,
                   calls, ordered_tables, toml_file>>

InitToml ==
    /\ current \in GraphSchemas \cup EmitSchemas
    /\ target = EmptySchema
    /\ db = catalog_of(current)
    /\ pc = "write_toml"
    /\ migrations = <<>>
    /\ next_stmt = 0
    /\ tx = "none"
    /\ txdb = db
    /\ wire = <<>>
    /\ result = None
    /\ pre_db = db
    /\ calls = <<>>
    /\ ordered_tables = <<>>
    /\ toml_file = ""
    /\ rows = NoRows
    /\ peer = NoCall

NextToml ==
    \/ WriteSchemaToml
    \/ WriteSchemaTomlFails

SpecToml == InitToml /\ [][NextToml]_vars

\* the names of the [[table]] blocks of a file, in file order
table_blocks(file) ==
    MapSeq(LAMBDA b : unquote_head(Drop(b, Len("name = "))).name,
           Tail(Split(file, "[[table]]\n")))

(* C16: in a written file every table of the schema is one [[table]]       *)
(* block, no table has two, and the blocks are in ascending order of the   *)
(* table name, whatever order the table map was iterated in.               *)
C16_TablesSortedInFile ==
    pc = "written" =>
        LET names == table_blocks(toml_file)
        IN  /\ Range(names) = DOMAIN current.tables
            /\ Len(names) = Cardinality(DOMAIN current.tables)
            /\ \A i, j \in 1..Len(names) : i < j => str_lt(names[i], names[j])

\* a file of three tables
C16_Witness ==
    /\ pc = "written"
    /\ table_blocks(toml_file) = <<"a", "b", "c">>
    /\ \E t \in DOMAIN current.tables : current.tables[t].foreign_keys # <<>>

\* the DEFAULT of a column definition "c" <type>[ NOT NULL][ DEFAULT <d>]
def_default(def) ==
    LET d == Find(def, " DEFAULT ", 1)
    IN  IF d = 0 THEN None ELSE Some(Drop(def, d + Len(" DEFAULT ") - 1))

def_not_null(def) ==
    LET d == Find(def, " DEFAULT ", 1)
    IN  ends_with(IF d = 0 THEN def ELSE SubSeq(def, 1, d - 1), " NOT NULL")

(* C21: a column definition of CREATE TABLE carries DEFAULT <expr> iff the *)
(* column has a default without the substring nextval; an ADD COLUMN       *)
(* statement carries DEFAULT <expr> iff the column has any default; both   *)
(* carry NOT NULL iff the column is not nullable.                          *)
C21_DefaultAndNotNullClauses ==
    Planned =>
        \A i \in 1..Len(migrations) :
            LET sql == migrations[i]
            IN  /\ is_create_table(sql) =>
                       \A col \in Range(target.tables[first_name(sql)].columns) :
                           \E part \in Range(create_table_parts(sql)) :
                               /\ starts_with(part, "\"" \o col.name \o "\" ")
                               /\ def_default(part)
                                      = (IF col.default # None
                                            /\ ~contains(col.default[1], "nextval")
                                         THEN col.default ELSE None)
                               /\ def_not_null(part) <=> ~col.is_nullable
                /\ is_add_column(sql) =>
                       LET col == column_named(target.tables[first_name(sql)], column_of(sql))
                       IN  /\ def_default(add_column_def(sql)) = col.default
                           /\ def_not_null(add_column_def(sql)) <=> ~col.is_nullable

\* a column with a sequence default is added to a table that exists
C21_Witness ==
    /\ Planned
    /\ \E i \in 1..Len(migrations) :
           /\ is_add_column(migrations[i])
           /\ def_default(add_column_def(migrations[i])) # None
           /\ contains(def_default(add_column_def(migrations[i]))[1], "nextval")

-----------------------------------------------------------------------------
(* Phase 2 pass by pass: the while loop of order_tables_by_dependency and   *)
(* the for loop that pushes the CREATE TABLE statements.  `ordered` is      *)
(* ordered_tables; `remaining` is what the loop has not moved yet.          *)

remaining_tables == NewTables \ Range(ordered_tables)

\* a pass that has no forced flush: when nothing can be moved nothing changes
order_pass_without_flush(ordered, remaining, schema, order) ==
    [ordered |-> ordered \o added_this_round(ordered, remaining, schema, order),
     flushed |-> FALSE]

\* one iteration of `while !remaining.is_empty()`
order_pass(ordered, remaining, schema, order) ==
    LET added == added_this_round(ordered, remaining, schema, order)
    IN  IF added = <<>>
        THEN [ordered |-> ordered \o Iterate(remaining, order), flushed |-> TRUE]
        ELSE [ordered |-> ordered \o added, flushed |-> FALSE]

OrderPass ==
    /\ pc = "ordering"
    /\ remaining_tables # {}
    /\ \E order \in Perms(remaining_tables) :
           ordered_tables' = order_pass(ordered_tables, remaining_tables, target, order).ordered
    /\ UNCHANGED <<peer, rows, db, target, pc, current, migrations, next_stmt, tx, txdb, wire, result,
                   pre_db, calls, toml_file>>

\* the loop is left; `for table_name in ordered_tables` pushes the statements
PushCreateTables ==
    /\ pc = "ordering"
    /\ remaining_tables = {}
    /\ migrations' = FlatMapSeq(LAMBDA table_name :
                                    IF contains_key(target, table_name)
                                    THEN <<generate_create_table(table_name,
                                                                 target.tables[table_name])>>
                                    ELSE <<>>,
                                ordered_tables)
    /\ pc' = "created"
    /\ UNCHANGED <<peer, rows, db, target, current, next_stmt, tx, txdb, wire, result, pre_db, calls,
                   ordered_tables, toml_file>>

InitPass ==
    /\ current \in GraphCurrents
    /\ target \in GraphSchemas
    /\ db = catalog_of(current)
    /\ pc = "ordering"
    /\ migrations = <<>>
    /\ next_stmt = 0
    /\ tx = "none"
    /\ txdb = db
    /\ wire = <<>>
    /\ result = None
    /\ pre_db = db
    /\ calls = <<>>
    /\ ordered_tables = <<>>
    /\ toml_file = ""
    /\ rows = NoRows
    /\ peer = NoCall

NextPass ==
    \/ OrderPass
    \/ PushCreateTables

\* the loop runs on its own thread of control: a pass that can run does run
SpecPass == InitPass /\ [][NextPass]_vars /\ WF_vars(NextPass)

(* C22: order_tables_by_dependency terminates on every input: every pass   *)
(* moves at least one table to the output, or appends all remaining tables *)
(* when none can be moved, and never repeats a table; the loop is left,    *)
(* and then the output holds every new table exactly once and the plan has *)
(* exactly one CREATE TABLE per new table.                                 *)
C22_OrderingTerminates ==
    /\ [][(pc = "ordering" /\ ordered_tables' # ordered_tables) =>
              /\ Len(ordered_tables') > Len(ordered_tables)
              /\ SubSeq(ordered_tables', 1, Len(ordered_tables)) = ordered_tables
              /\ Cardinality(Range(ordered_tables')) = Len(ordered_tables')
              /\ Range(ordered_tables') \subseteq NewTables]_vars
    /\ <>(pc = "created")
    /\ [](pc = "created" =>
              /\ is_permutation(ordered_tables, NewTables)
              /\ created_tables = ordered_tables)

\* three new tables on a foreign-key cycle: no pass can move one, all three
\* are flushed, and three CREATE TABLE statements are pushed
C22_Witness ==
    /\ pc = "created"
    /\ Cardinality(NewTables) = 3
    /\ Stalled = NewTables
    /\ Len(created_tables) = 3

-----------------------------------------------------------------------------
(* The three loops of read_db_schema on result sets drawn from a catalog.  *)
(* information_schema.columns shows a table only to a role that owns it or *)
(* holds a privilege on it; the foreign-key and index rows of the tables   *)
(* in `hidden` are kept, so that rows of tables the column pass never saw  *)
(* reach the second and third loop.                                        *)

IntrospectCatalogs == {cat \in {catalog_of(s) : s \in EmitSchemas} : catalog_valid(cat)}

rows_of(cat, hidden) ==
    [columns |-> column_rows([t \in DOMAIN cat \ hidden |-> cat[t]]),
     foreign_keys |-> fk_rows(cat),
     indexes |-> index_rows(cat)]

InitIntrospect ==
    /\ db \in IntrospectCatalogs
    /\ \E hidden \in SUBSET DOMAIN db : rows = rows_of(db, hidden)
    /\ peer = NoCall
    /\ target = EmptySchema
    /\ pc = "fetched"
    /\ current = EmptySchema
    /\ migrations = <<>>
    /\ next_stmt = 0
    /\ tx = "none"
    /\ txdb = db
    /\ wire = <<>>
    /\ result = None
    /\ pre_db = db
    /\ calls = <<>>
    /\ ordered_tables = <<>>
    /\ toml_file = ""

\* the loops over column_rows, fk_rows and index_rows, and Ok(DbSchema { tables })
BuildSchema ==
    /\ pc = "fetched"
    /\ \E index_order \in Perms(index_map_keys(rows.indexes)) :
           current' = read_db_schema(rows.columns, rows.foreign_keys, rows.indexes, index_order)
    /\ pc' = "generate"
    /\ UNCHANGED <<peer, db, target, migrations, next_stmt, tx, txdb, wire, result, pre_db,
                   calls, ordered_tables, toml_file, rows>>

SpecIntrospect == InitIntrospect /\ [][BuildSchema]_vars

\* the loops have run on the rows drawn
Introspected == pc = "generate" /\ rows # NoRows

(* C23: every index of the introspected schema lists its columns in the    *)
(* index's key order, whatever the columns' positions in the table; its    *)
(* uniqueness and access method are those of the first row of its group.   *)
C23_IndexColumnsInKeyOrder ==
    Introspected =>
        \A t \in DOMAIN current.tables : \A ix \in Range(current.tables[t].indexes) :
            /\ \E px \in Range(db[t].indexes) : px.name = ix.name /\ ix.columns = px.columns
            /\ LET group == SelectSeq(rows.indexes,
                                      LAMBDA r : r.table_name = t /\ r.index_name = ix.name)
               IN  /\ ix.is_unique = group[1].is_unique
                   /\ ix.index_type = group[1].index_type

\* the table names of the column pass
seen_tables == {r.table_name : r \in Range(rows.columns)}

(* C24: a foreign-key row or an index group whose table the column pass    *)
(* did not produce is dropped and makes no table entry: the tables of the  *)
(* introspected schema are the table names of the column rows, each with   *)
(* its columns in row order, and with the foreign keys and index groups of *)
(* that table only.                                                        *)
C24_TablesComeFromColumnPass ==
    Introspected =>
        /\ DOMAIN current.tables = seen_tables
        /\ \A t \in DOMAIN current.tables :
            /\ MapSeq(LAMBDA c : c.name, current.tables[t].columns)
                   = MapSeq(LAMBDA r : r.column_name,
                            SelectSeq(rows.columns, LAMBDA r : r.table_name = t))
            /\ MapSeq(LAMBDA f : f.column, current.tables[t].foreign_keys)
                   = MapSeq(LAMBDA r : r.column_name,
                            SelectSeq(rows.foreign_keys, LAMBDA r : r.table_name = t))
            /\ {ix.name : ix \in Range(current.tables[t].indexes)}
                   = {k[2] : k \in {k \in index_map_keys(rows.indexes) : k[1] = t}}

\* a foreign-key row and an index group of a table without column rows
C24_Witness ==
    /\ Introspected
    /\ seen_tables # {}
    /\ \E r \in Range(rows.foreign_keys) : r.table_name \notin seen_tables
    /\ \E r \in Range(rows.indexes) : r.table_name \notin seen_tables

\* the other new tables a new table references
new_refs(t) ==
    {fk.referenced_table : fk \in Range(target.tables[t].foreign_keys)} \cap (NewTables \ {t})

\* the new tables reached from the tables of S along foreign keys
RECURSIVE reached_from(_)
reached_from(S) ==
    LET more == S \cup UNION {new_refs(t) : t \in S}
    IN  IF more = S THEN S ELSE reached_from(more)

\* no cycle among the new tables other than self-references
Acyclic == \A t \in NewTables : t \notin reached_from(new_refs(t))

(* C26: when the foreign keys among the new tables have no cycle other     *)
(* than self-references, no pass of the loop finds nothing to move (the    *)
(* forced flush is never taken) and in the output every new table comes    *)
(* after every other new table it references.                              *)
C26_AcyclicGivesTopologicalOrder ==
    Acyclic =>
        /\ (pc = "ordering" /\ remaining_tables # {}) =>
               \A order \in Perms(remaining_tables) :
                   /\ added_this_round(ordered_tables, remaining_tables, target, order) # <<>>
                   /\ ~order_pass(ordered_tables, remaining_tables, target, order).flushed
        /\ pc = "created" =>
               /\ is_permutation(ordered_tables, NewTables)
               /\ \A i, j \in 1..Len(ordered_tables) :
                      ordered_tables[j] \in new_refs(ordered_tables[i]) => j < i

\* three new tables: one references itself, one references another new table
C26_Witness ==
    /\ pc = "created"
    /\ Acyclic
    /\ Cardinality(NewTables) = 3
    /\ \E t \in NewTables : new_refs(t) # {}
    /\ \E t \in NewTables :
           \E fk \in Range(target.tables[t].foreign_keys) : fk.referenced_table = t

\* no two indexes of the schema have the same name
unique_index_names(schema) ==
    \A t1, t2 \in DOMAIN schema.tables :
        \A i1 \in 1..Len(schema.tables[t1].indexes), i2 \in 1..Len(schema.tables[t2].indexes) :
            schema.tables[t1].indexes[i1].name = schema.tables[t2].indexes[i2].name
                => t1 = t2 /\ i1 = i2

(* C27: when the index names of current are unique and those of target are *)
(* unique, no plan holds a CREATE INDEX and a DROP INDEX statement for the  *)
(* same index name.                                                        *)
C27_NoIndexCreatedAndDropped ==
    (Planned /\ unique_index_names(current) /\ unique_index_names(target)) =>
        \A i, j \in 1..Len(migrations) :
            (is_create_index(migrations[i]) /\ is_drop_index(migrations[j]))
                => first_name(migrations[i]) # first_name(migrations[j])

(* C28: within one table, foreign keys with distinct (column,              *)
(* referenced_table) get distinct constraint names: a DROP CONSTRAINT      *)
(* statement never names the constraint of a foreign key that target       *)
(* keeps, and two ADD CONSTRAINT statements on one table never use the     *)
(* same constraint name.                                                   *)
C28_ConstraintNamesDistinct ==
    Planned =>
        /\ \A t \in DOMAIN current.tables \cap DOMAIN target.tables :
               \A f \in Range(current.tables[t].foreign_keys) :
                   (\E g \in Range(target.tables[t].foreign_keys) : same_pair(f, g))
                       => drop_fk_positions(t, f) = {}
        /\ \A i, j \in 1..Len(migrations) :
               (/\ i < j
                /\ is_add_fk(migrations[i])
                /\ is_add_fk(migrations[j])
                /\ add_fk_parts(migrations[i]).table = add_fk_parts(migrations[j]).table)
                   => add_fk_parts(migrations[i]).constraint
                          # add_fk_parts(migrations[j]).constraint

-----------------------------------------------------------------------------
\* the columns a CREATE INDEX statement lists after USING <type>
index_columns(sql) ==
    LET u == Find(sql, " USING ", 1)
        open == Find(sql, " (", u)
        list == SubSeq(sql, open + Len(" (\""), Len(sql) - Len("\")"))
    IN  Range(Split(list, "\", \""))

\* the columns a CREATE TABLE statement defines
created_columns(sql) ==
    {unquote_head(def).name :
         def \in {d \in Range(create_table_parts(sql)) : starts_with(d, "\"")}}

\* column c of table t exists when statement i of the plan is executed
exists_at(i, t, c) ==
    \/ contains_key(current, t) /\ c \in {col.name : col \in Range(current.tables[t].columns)}
    \/ \E j \in 1..(i - 1) :
           \/ /\ is_create_table(migrations[j])
              /\ first_name(migrations[j]) = t
              /\ c \in created_columns(migrations[j])
           \/ /\ is_add_column(migrations[j])
              /\ first_name(migrations[j]) = t
              /\ column_of(migrations[j]) = c

\* table t exists when statement i of the plan is executed
table_exists_at(i, t) ==
    \/ contains_key(current, t)
    \/ \E j \in 1..(i - 1) : is_create_table(migrations[j]) /\ first_name(migrations[j]) = t

\* each index and foreign key of target names columns of its own table, and
\* each referenced table is in target or in current
names_resolve(cur, tgt) ==
    \A t \in DOMAIN tgt.tables :
        LET cols == {c.name : c \in Range(tgt.tables[t].columns)}
        IN  /\ \A ix \in Range(tgt.tables[t].indexes) : Range(ix.columns) \subseteq cols
            /\ \A fk \in Range(tgt.tables[t].foreign_keys) :
                   /\ fk.column \in cols
                   /\ fk.referenced_table \in DOMAIN tgt.tables \cup DOMAIN cur.tables

(* C29: when target's indexes and foreign keys name columns of their own   *)
(* table and tables of target or current, every CREATE INDEX and every ADD *)
(* CONSTRAINT of the plan names a table and local columns that are in      *)
(* current or were created by an earlier CREATE TABLE or ADD COLUMN of the *)
(* plan.                                                                   *)
C29_NamedObjectsExistWhenExecuted ==
    (Planned /\ names_resolve(current, target)) =>
        \A i \in 1..Len(migrations) :
            /\ is_create_index(migrations[i]) =>
                   /\ table_exists_at(i, index_table(migrations[i]))
                   /\ index_columns(migrations[i]) # {}
                   /\ \A c \in index_columns(migrations[i]) :
                          exists_at(i, index_table(migrations[i]), c)
            /\ is_add_fk(migrations[i]) =>
                   /\ table_exists_at(i, add_fk_parts(migrations[i]).table)
                   /\ exists_at(i, add_fk_parts(migrations[i]).table,
                                add_fk_parts(migrations[i]).fk.column)

\* an index and a foreign key on columns that the plan itself adds or creates
C29_Witness ==
    /\ Planned
    /\ names_resolve(current, target)
    /\ \E i \in 1..Len(migrations) :
           /\ is_create_index(migrations[i])
           /\ contains_key(current, index_table(migrations[i]))
           /\ \E c \in index_columns(migrations[i]) :
                  c \notin {col.name : col \in Range(current.tables[index_table(migrations[i])].columns)}
    /\ \E i \in 1..Len(migrations) :
           /\ is_add_fk(migrations[i])
           /\ ~contains_key(current, add_fk_parts(migrations[i]).table)

-----------------------------------------------------------------------------
(* The planner of schema.rs, behind Schema::apply_to_db.  Schema, Table,   *)
(* Column, ForeignKey and Index have the fields of DbSchema, DbTable,      *)
(* DbColumn, DbForeignKey and DbIndex, so one value serves both planners.  *)

schema_find_new_tables(cur, tgt, order) ==
    SelectSeq(Iterate(DOMAIN tgt.tables, order), LAMBDA name : name \notin DOMAIN cur.tables)

schema_find_new_columns(cur, tgt) ==
    LET current_cols == {cur.columns[i].name : i \in 1..Len(cur.columns)}
    IN  SelectSeq(tgt.columns, LAMBDA c : ~(c.name \in current_cols))

schema_columns_differ(a, b) ==
    a.data_type # b.data_type \/ a.is_nullable # b.is_nullable \/ a.default # b.default

\* current_map is collected from (name, column) pairs: a later column of a
\* name replaces an earlier one
schema_find_changed_columns(cur, tgt) ==
    LET last(name) == CHOOSE i \in 1..Len(cur.columns) :
                          /\ cur.columns[i].name = name
                          /\ \A j \in (i + 1)..Len(cur.columns) : cur.columns[j].name # name
        known(name) == \E i \in 1..Len(cur.columns) : cur.columns[i].name = name
        changed == SelectSeq(tgt.columns,
                             LAMBDA target_col :
                                 /\ known(target_col.name)
                                 /\ schema_columns_differ(cur.columns[last(target_col.name)],
                                                          target_col))
    IN  [k \in 1..Len(changed) |-> <<cur.columns[last(changed[k].name)], changed[k]>>]

schema_find_new_indexes(cur, tgt) ==
    LET current_idx_names ==
            IF cur = None THEN {} ELSE {cur[1].indexes[i].name : i \in 1..Len(cur[1].indexes)}
    IN  SelectSeq(tgt.indexes, LAMBDA i : ~(i.name \in current_idx_names))

schema_find_dropped_indexes(cur, tgt) ==
    LET target_idx_names == {tgt.indexes[i].name : i \in 1..Len(tgt.indexes)}
    IN  SelectSeq(cur.indexes, LAMBDA i : ~(i.name \in target_idx_names))

schema_find_new_foreign_keys(cur, tgt) ==
    LET current_fks ==
            IF cur = None THEN {}
            ELSE {<<cur[1].foreign_keys[i].column, cur[1].foreign_keys[i].referenced_table>> :
                      i \in 1..Len(cur[1].foreign_keys)}
    IN  SelectSeq(tgt.foreign_keys,
                  LAMBDA f : ~(<<f.column, f.referenced_table>> \in current_fks))

schema_find_dropped_foreign_keys(cur, tgt) ==
    LET target_fks == {<<tgt.foreign_keys[i].column, tgt.foreign_keys[i].referenced_table>> :
                           i \in 1..Len(tgt.foreign_keys)}
    IN  SelectSeq(cur.foreign_keys,
                  LAMBDA f : ~(<<f.column, f.referenced_table>> \in target_fks))

\* the while loop of order_tables_by_dependency, from (ordered, remaining)
RECURSIVE schema_order_while(_, _, _, _)
schema_order_while(ordered, remaining, schema, order) ==
    LET deps_ok(table_name) ==
            \A k \in 1..Len(schema.tables[table_name].foreign_keys) :
                LET fk == schema.tables[table_name].foreign_keys[k]
                IN  \/ \E i \in 1..Len(ordered) : ordered[i] = fk.referenced_table
                    \/ ~(fk.referenced_table \in remaining)
                    \/ fk.referenced_table = table_name
        round == SelectSeq(Iterate(remaining, order),
                           LAMBDA table_name :
                               table_name \in DOMAIN schema.tables /\ deps_ok(table_name))
    IN  IF remaining = {} THEN ordered
        ELSE IF Len(round) = 0 THEN ordered \o Iterate(remaining, order)
        ELSE schema_order_while(ordered \o round,
                                {t \in remaining : \A i \in 1..Len(round) : round[i] # t},
                                schema, order)

schema_order_tables_by_dependency(tables, schema, order) ==
    schema_order_while(<<>>, {tables[i] : i \in 1..Len(tables)}, schema, order)

schema_map_data_type(pg_type) ==
    IF pg_type = "character varying" THEN "VARCHAR(255)"
    ELSE IF pg_type = "timestamp without time zone" THEN "TIMESTAMP"
    ELSE IF pg_type = "timestamp with time zone" THEN "TIMESTAMPTZ"
    ELSE pg_type

schema_format_column_def(col) ==
    "\"" \o col.name \o "\" " \o schema_map_data_type(col.data_type)
        \o (IF col.is_nullable THEN "" ELSE " NOT NULL")
        \o (IF col.default = None THEN ""
            ELSE IF contains(col.default[1], "nextval") THEN ""
            ELSE " DEFAULT " \o col.default[1])

schema_generate_create_table(name, table) ==
    LET pks == {i \in 1..Len(table.indexes) : ends_with(table.indexes[i].name, "_pkey")}
        pk == table.indexes[CHOOSE i \in pks : \A j \in pks : i <= j]
        columns == [i \in 1..Len(table.columns) |-> schema_format_column_def(table.columns[i])]
        parts == IF pks = {} THEN columns
                 ELSE columns \o <<"PRIMARY KEY (" \o join(pk.columns, ", ") \o ")">>
    IN  "CREATE TABLE \"" \o name \o "\" (\n  " \o join(parts, ",\n  ") \o "\n)"

\* an ADD COLUMN written with format_column_def, which leaves sequence defaults out
schema_generate_add_column_by_column_def(table, col) ==
    "ALTER TABLE \"" \o table \o "\" ADD COLUMN " \o schema_format_column_def(col)

schema_generate_add_column(table, col) ==
    "ALTER TABLE \"" \o table \o "\" ADD COLUMN \"" \o col.name \o "\" "
        \o schema_map_data_type(col.data_type)
        \o (IF col.is_nullable THEN "" ELSE " NOT NULL")
        \o (IF col.default = None THEN "" ELSE " DEFAULT " \o col.default[1])

schema_generate_alter_column(table, old, new) ==
    LET alter == "ALTER TABLE \"" \o table \o "\" ALTER COLUMN \"" \o new.name \o "\" "
    IN  <<alter \o "TYPE " \o schema_map_data_type(new.data_type)
              \o " USING \"" \o new.name \o "\"::" \o schema_map_data_type(new.data_type)>>
        \o <<alter \o (IF new.is_nullable THEN "DROP NOT NULL" ELSE "SET NOT NULL")>>
        \o <<alter \o (IF new.default = None THEN "DROP DEFAULT"
                       ELSE "SET DEFAULT " \o new.default[1])>>

schema_generate_create_index(table, idx) ==
    "CREATE " \o (IF idx.is_unique THEN "UNIQUE " ELSE "") \o "INDEX \"" \o idx.name
        \o "\" ON \"" \o table \o "\" USING " \o idx.index_type \o " ("
        \o join([i \in 1..Len(idx.columns) |-> "\"" \o idx.columns[i] \o "\""], ", ") \o ")"

schema_generate_drop_index(name) == "DROP INDEX IF EXISTS \"" \o name \o "\""

schema_generate_add_fk(table, fk) ==
    "ALTER TABLE \"" \o table \o "\" ADD CONSTRAINT \"" \o table \o "_" \o fk.column
        \o "_fkey\" FOREIGN KEY (\"" \o fk.column \o "\") REFERENCES \""
        \o fk.referenced_table \o "\"(\"" \o fk.referenced_column \o "\")"

schema_generate_drop_fk(table, fk) ==
    "ALTER TABLE \"" \o table \o "\" DROP CONSTRAINT IF EXISTS \"" \o table \o "_"
        \o fk.column \o "_fkey\""

\* the six loops of generate_migrations, each pushing onto `migrations`
schema_generate_migrations(cur, tgt, order) ==
    LET current_tables == Iterate(DOMAIN cur.tables, order.current)
        target_tables == Iterate(DOMAIN tgt.tables, order.target)
        in_both(names) == SelectSeq(names, LAMBDA t : t \in DOMAIN cur.tables \cap DOMAIN tgt.tables)
        some(schema, t) == IF t \in DOMAIN schema.tables THEN <<schema.tables[t]>> ELSE None
        not_pkey(indexes) == SelectSeq(indexes, LAMBDA idx : ~ends_with(idx.name, "_pkey"))
        drop_fks(t) ==
            LET dropped_fks == schema_find_dropped_foreign_keys(cur.tables[t], tgt.tables[t])
            IN  [k \in 1..Len(dropped_fks) |-> schema_generate_drop_fk(t, dropped_fks[k])]
        ordered_new == schema_order_tables_by_dependency(
                           schema_find_new_tables(cur, tgt, order.target), tgt, order.remaining)
        creates == SelectSeq(ordered_new, LAMBDA t : t \in DOMAIN tgt.tables)
        alters(t) ==
            LET new_columns == schema_find_new_columns(cur.tables[t], tgt.tables[t])
                changed_columns == schema_find_changed_columns(cur.tables[t], tgt.tables[t])
            IN  [k \in 1..Len(new_columns) |-> schema_generate_add_column(t, new_columns[k])]
                \o FlatMapSeq(LAMBDA ch : schema_generate_alter_column(t, ch[1], ch[2]),
                              changed_columns)
        create_indexes(t) ==
            LET new_indexes == not_pkey(schema_find_new_indexes(some(cur, t), tgt.tables[t]))
            IN  [k \in 1..Len(new_indexes) |-> schema_generate_create_index(t, new_indexes[k])]
        add_fks(t) ==
            LET new_fks == schema_find_new_foreign_keys(some(cur, t), tgt.tables[t])
            IN  [k \in 1..Len(new_fks) |-> schema_generate_add_fk(t, new_fks[k])]
        drop_indexes(t) ==
            LET dropped == not_pkey(schema_find_dropped_indexes(cur.tables[t], tgt.tables[t]))
            IN  [k \in 1..Len(dropped) |-> schema_generate_drop_index(dropped[k].name)]
    IN  FlatMapSeq(drop_fks, in_both(current_tables))
        \o [k \in 1..Len(creates) |-> schema_generate_create_table(creates[k], tgt.tables[creates[k]])]
        \o FlatMapSeq(alters, in_both(target_tables))
        \o FlatMapSeq(create_indexes, target_tables)
        \o FlatMapSeq(add_fks, target_tables)
        \o FlatMapSeq(drop_indexes, in_both(current_tables))

(* C30: the planner of schema.rs and the planner of write_schema_to_db.rs  *)
(* give the same plan, statement for statement, for every current and      *)
(* target, under the same iteration order of the table maps.               *)
C30_PlannersAgree ==
    Planned =>
        /\ \E order \in Orders(current, target) :
               migrations = generate_migrations(current, target, order)
        /\ \A order \in Orders(current, target) :
               /\ Len(schema_generate_migrations(current, target, order))
                      = Len(generate_migrations(current, target, order))
               /\ \A i \in 1..Len(generate_migrations(current, target, order)) :
                      schema_generate_migrations(current, target, order)[i]
                          = generate_migrations(current, target, order)[i]
               /\ migrations = generate_migrations(current, target, order)
                      => migrations = schema_generate_migrations(current, target, order)

\* both planners give this plan: a new table with its foreign key, an altered
\* column and an added column whose default is a sequence
C30_Witness ==
    /\ Planned
    /\ migrations = schema_generate_migrations(current, target,
                        CHOOSE order \in Orders(current, target) :
                            migrations = generate_migrations(current, target, order))
    /\ \E i \in 1..Len(migrations) : is_add_column(migrations[i])
                                         /\ contains(migrations[i], "nextval")
    /\ \E i \in 1..Len(migrations) : is_alter_column(migrations[i])
    /\ \E i \in 1..Len(migrations) : is_create_table(migrations[i])
    /\ \E i \in 1..Len(migrations) : is_add_fk(migrations[i])

-----------------------------------------------------------------------------
(* Two calls of write_schema_to_db with the same target on one database.   *)
(* The calls are futures: each is suspended at an await (read_db_schema,   *)
(* begin, execute, commit) while the other runs.  The variables hold the   *)
(* locals of the call that runs, `peer` the locals of the suspended one.   *)
(* The database is PostgreSQL at READ COMMITTED: a statement sees what is  *)
(* committed when it starts, and the catalog locks of a transaction that   *)
(* has changed the catalog make the other call's statements wait.          *)

\* the locals of a call that has not started
FreshCall(cat) ==
    [pc |-> "start", current |-> EmptySchema, migrations |-> <<>>, next_stmt |-> 0,
     tx |-> "none", txdb |-> cat, wire |-> <<>>, result |-> None, pre_db |-> cat,
     ordered_tables |-> <<>>]

\* the locals of the call that runs
locals ==
    [pc |-> pc, current |-> current, migrations |-> migrations, next_stmt |-> next_stmt,
     tx |-> tx, txdb |-> txdb, wire |-> wire, result |-> result, pre_db |-> pre_db,
     ordered_tables |-> ordered_tables]

\* the call's transaction has executed a statement and holds its locks
holds_changes(call) == call.tx = "open" /\ call.next_stmt > 1

\* a view of the catalog fixed when the transaction began
resumed_txdb_of_begin(call, committed) == call.txdb

\* what the next statement of a resumed call sees: its own changes if it has
\* any, else what is committed by now
resumed_txdb(call, committed) == IF holds_changes(call) THEN call.txdb ELSE committed

\* the executor suspends the call that runs and polls the other one
Switch ==
    /\ peer.pc \notin {"absent", "returned"}
    /\ pc' = peer.pc
    /\ current' = peer.current
    /\ migrations' = peer.migrations
    /\ next_stmt' = peer.next_stmt
    /\ tx' = peer.tx
    /\ txdb' = resumed_txdb(peer, db)
    /\ wire' = peer.wire
    /\ result' = peer.result
    /\ pre_db' = peer.pre_db
    /\ ordered_tables' = peer.ordered_tables
    /\ peer' = locals
    /\ UNCHANGED <<db, target, calls, toml_file, rows>>

\* a statement runs once the other call's transaction has let go of its locks
ExecuteUnlocked == ~holds_changes(peer) /\ Execute

\* the schemas the database holds when the two calls start
TwoCurrents == {SchemaOf(0, 0), SchemaOf(1, 0), SchemaOf(1, 1), SchemaOf(3, 2)}

\* the targets of the two calls: new tables, new columns, new and dropped
\* indexes, new foreign keys, and columns that are only altered
TwoTargets ==
    {SchemaOf(1, 0), SchemaOf(2, 0), SchemaOf(3, 0), SchemaOf(1, 1), SchemaOf(3, 2),
     SchemaOf(4, 5)}

InitTwo ==
    /\ db \in {catalog_of(s) : s \in TwoCurrents}
    /\ target \in TwoTargets
    /\ pc = "start"
    /\ current = EmptySchema
    /\ migrations = <<>>
    /\ next_stmt = 0
    /\ tx = "none"
    /\ txdb = db
    /\ wire = <<>>
    /\ result = None
    /\ pre_db = db
    /\ calls = <<>>
    /\ ordered_tables = <<>>
    /\ toml_file = ""
    /\ rows = NoRows
    /\ peer = FreshCall(db)

NextTwo ==
    \/ ReadDbSchema
    \/ GenerateMigrations
    \/ Begin
    \/ ExecuteUnlocked
    \/ Commit
    \/ Switch

SpecTwo == InitTwo /\ [][NextTwo]_vars

\* the statement creates a table, a column or an index
creates_object(sql) == is_create_table(sql) \/ is_add_column(sql) \/ is_create_index(sql)

(* C25: two concurrent calls are not serialized.  Each call reads the      *)
(* schema and plans with no transaction open, and its plan stays the one   *)
(* of the schema it read, whatever is committed meanwhile.  So of two      *)
(* calls that read the same catalog, where the first to finish committed a *)
(* plan that creates a table, a column or an index, the other executed     *)
(* the same kind of plan against the objects of the first: it fails, and   *)
(* the database stays as the first left it.                                *)
C25_CallsNotSerialized ==
    /\ pc \in {"start", "generate", "begin"} => tx = "none"
    /\ peer.pc \in {"start", "generate", "begin"} => peer.tx = "none"
    /\ (pc \in {"begin", "execute", "commit"}) =>
           /\ \E index_order \in Perms(index_map_keys(index_rows(pre_db))) :
                  current = read_db_schema(column_rows(pre_db), fk_rows(pre_db),
                                           index_rows(pre_db), index_order)
           /\ \E order \in Orders(current, target) :
                  migrations = generate_migrations(current, target, order)
    /\ \A i, j \in 1..Len(calls) :
           (/\ i < j
            /\ calls[i].pre = calls[j].pre
            /\ calls[i].result.ok
            /\ \E k \in 1..Len(calls[i].result.value) : creates_object(calls[i].result.value[k]))
               => /\ ~calls[j].result.ok
                  /\ calls[j].post = calls[i].post
                  /\ \E k \in 1..Len(calls[j].wire) :
                         /\ calls[j].wire[k].op = "execute"
                         /\ ~calls[j].wire[k].ok
                         /\ calls[j].wire[k].sql \in Range(calls[i].result.value)

\* both calls read the same catalog and hold the same plan; the first has
\* committed it, the second has failed on a statement the first executed
C25_Witness ==
    /\ Len(calls) = 2
    /\ pc = "returned" /\ peer.pc = "returned"
    /\ peer.pre_db = pre_db
    /\ peer.current = current
    /\ peer.migrations = migrations /\ migrations # <<>>
    /\ peer.tx = "committed" /\ peer.result = Some(RetOk(migrations))
    /\ tx = "rolled_back"
    /\ db = peer.txdb /\ db # pre_db
    /\ \E k \in 1..Len(migrations) :
           /\ creates_object(migrations[k])
           /\ result = Some(RetErr("Failed to execute: " \o migrations[k]))

====
